---- MODULE Spec2Model ----
(***************************************************************************)
(* Model of the Soroban contract bridge of stellar-wrap-frontend: the      *)
(* mintWrap transaction lifecycle (src/src/services/contractBridge.ts),    *)
(* the contract argument builder (src/src/utils/contractArgsBuilder.ts),   *)
(* the value converter (src/src/utils/sorobanConverter.ts) and the         *)
(* per-network contract configuration (src/config/contracts.ts).           *)
(*                                                                         *)
(* JavaScript strings are sequences of one-character strings, so that      *)
(* includes / startsWith / trim / slice and the template literals of the   *)
(* code are computed character by character.  JavaScript numbers are       *)
(* records: NaN, +-Infinity, or a finite value sign * (mag + frac/2) whose *)
(* magnitude is a sequence of base-2^16 limbs, most significant first.     *)
(***************************************************************************)
EXTENDS Integers, Sequences, FiniteSets, TLC

\* ------------------------------------------------------------------------
\* Text: every string literal, as a tuple of its characters
\* ------------------------------------------------------------------------

\* text the JavaScript runtime produces (typeof, String(value), separators)
JsText ==
  [ comma_sp |->
      <<","," ">>,
    n0 |->
      <<"0">>,
    undefined |->
      <<"u","n","d","e","f","i","n","e","d">>,
    string |->
      <<"s","t","r","i","n","g">>,
    number |->
      <<"n","u","m","b","e","r">>,
    bigint |->
      <<"b","i","g","i","n","t">>,
    boolean |->
      <<"b","o","o","l","e","a","n">>,
    function |->
      <<"f","u","n","c","t","i","o","n">>,
    symbol |->
      <<"s","y","m","b","o","l">>,
    object |->
      <<"o","b","j","e","c","t">>,
    NaN |->
      <<"N","a","N">>,
    Infinity |->
      <<"I","n","f","i","n","i","t","y">>,
    minus |->
      <<"-">>,
    dot_5 |->
      <<".","5">>,
    null |->
      <<"n","u","l","l">>,
    object_Object |->
      <<"[","o","b","j","e","c","t"," ","O","b","j","e","c","t","]">> ]

\* string literals of src/src/config.ts and src/config/contracts.ts
ConfigText ==
  [ mainnet |->
      <<"m","a","i","n","n","e","t">>,
    testnet |->
      <<"t","e","s","t","n","e","t">>,
    Invalid_contract_address_for |->
      <<"I","n","v","a","l","i","d"," ","c","o","n","t","r","a","c","t"," ","a","d","d","r",
        "e","s","s"," ","f","o","r"," ">>,
    address_must_be_56_characters_C_pref |->
      <<":"," ","a","d","d","r","e","s","s"," ","m","u","s","t"," ","b","e"," ","5","6"," ",
        "c","h","a","r","a","c","t","e","r","s",","," ","C","-","p","r","e","f","i","x",",",
        " ","b","a","s","e","3","2","."," ","G","o","t",":"," ">>,
    dot_dot_dot |->
      <<".",".",".">>,
    Invalid_network |->
      <<"I","n","v","a","l","i","d"," ","n","e","t","w","o","r","k",":"," ">> ]

\* string literals of src/src/utils/sorobanConverter.ts
ConverterText ==
  [ G |->
      <<"G">>,
    C |->
      <<"C">>,
    Invalid_number_value |->
      <<"I","n","v","a","l","i","d"," ","n","u","m","b","e","r"," ","v","a","l","u","e",":",
        " ">>,
    Value |->
      <<"V","a","l","u","e"," ">>,
    is_out_of_u32_range_0 |->
      <<" ","i","s"," ","o","u","t"," ","o","f"," ","u","3","2"," ","r","a","n","g","e"," ",
        "[","0",","," ">>,
    rbr |->
      <<"]">>,
    Failed_to_convert |->
      <<"F","a","i","l","e","d"," ","t","o"," ","c","o","n","v","e","r","t"," ">>,
    to_ScVal_u64 |->
      <<" ","t","o"," ","S","c","V","a","l"," ","u","6","4",":"," ">>,
    is_negative_u64_requires_non_negativ |->
      <<" ","i","s"," ","n","e","g","a","t","i","v","e",";"," ","u","6","4"," ","r","e","q",
        "u","i","r","e","s"," ","n","o","n","-","n","e","g","a","t","i","v","e"," ","v","a",
        "l","u","e","s">>,
    exceeds_u64_max |->
      <<" ","e","x","c","e","e","d","s"," ","u","6","4"," ","m","a","x"," ","(">>,
    rpar |->
      <<")">>,
    Expected_string_but_received |->
      <<"E","x","p","e","c","t","e","d"," ","s","t","r","i","n","g"," ","b","u","t"," ","r",
        "e","c","e","i","v","e","d"," ">>,
    String_exceeds_maximum_length_of_256 |->
      <<"S","t","r","i","n","g"," ","e","x","c","e","e","d","s"," ","m","a","x","i","m","u",
        "m"," ","l","e","n","g","t","h"," ","o","f"," ","2","5","6","0","0","0"," ","b","y",
        "t","e","s">>,
    Expected_string_address_but_received |->
      <<"E","x","p","e","c","t","e","d"," ","s","t","r","i","n","g"," ","a","d","d","r","e",
        "s","s"," ","b","u","t"," ","r","e","c","e","i","v","e","d"," ">>,
    Invalid_Stellar_address |->
      <<"I","n","v","a","l","i","d"," ","S","t","e","l","l","a","r"," ","a","d","d","r","e",
        "s","s",":"," ","\"">>,
    Must_be_a_56_character_G_account_or |->
      <<"\"","."," ","M","u","s","t"," ","b","e"," ","a"," ","5","6","-","c","h","a","r",
        "a","c","t","e","r"," ","G",".",".","."," ","(","a","c","c","o","u","n","t",")"," ",
        "o","r"," ","C",".",".","."," ","(","c","o","n","t","r","a","c","t",")"," ","a","d",
        "d","r","e","s","s">>,
    Failed_to_convert_map_value_for_key |->
      <<"F","a","i","l","e","d"," ","t","o"," ","c","o","n","v","e","r","t"," ","m","a","p",
        " ","v","a","l","u","e"," ","f","o","r"," ","k","e","y"," ","\"">>,
    _colon_sp |->
      <<"\"",":"," ">>,
    to_ScVal_i64 |->
      <<" ","t","o"," ","S","c","V","a","l"," ","i","6","4",":"," ">>,
    is_out_of_i64_range |->
      <<" ","i","s"," ","o","u","t"," ","o","f"," ","i","6","4"," ","r","a","n","g","e"," ",
        "[">>,
    to_ScVal |->
      <<" ","t","o"," ","S","c","V","a","l"," ">>,
    colon_sp |->
      <<":"," ">>,
    to_ScVal_u128 |->
      <<" ","t","o"," ","S","c","V","a","l"," ","u","1","2","8",":"," ">>,
    is_negative_u128_requires_non_negati |->
      <<" ","i","s"," ","n","e","g","a","t","i","v","e",";"," ","u","1","2","8"," ","r","e",
        "q","u","i","r","e","s"," ","n","o","n","-","n","e","g","a","t","i","v","e"," ","v",
        "a","l","u","e","s">>,
    u128 |->
      <<"u","1","2","8">>,
    to_ScVal_i128 |->
      <<" ","t","o"," ","S","c","V","a","l"," ","i","1","2","8",":"," ">>,
    i128 |->
      <<"i","1","2","8">>,
    Invalid_symbol |->
      <<"I","n","v","a","l","i","d"," ","s","y","m","b","o","l"," ","\"">>,
    must_be_1_32_chars_alphanumeric_unde |->
      <<"\"",":"," ","m","u","s","t"," ","b","e"," ","1","-","3","2"," ","c","h","a","r",
        "s",","," ","a","l","p","h","a","n","u","m","e","r","i","c","/","u","n","d","e","r",
        "s","c","o","r","e",","," ","s","t","a","r","t","i","n","g"," ","w","i","t","h"," ",
        "l","e","t","t","e","r"," ","o","r"," ","u","n","d","e","r","s","c","o","r","e">>,
    Expected_boolean_but_received |->
      <<"E","x","p","e","c","t","e","d"," ","b","o","o","l","e","a","n"," ","b","u","t"," ",
        "r","e","c","e","i","v","e","d"," ">>,
    Cannot_infer_ScVal_type_for_value_of |->
      <<"C","a","n","n","o","t"," ","i","n","f","e","r"," ","S","c","V","a","l"," ","t","y",
        "p","e"," ","f","o","r"," ","v","a","l","u","e"," ","o","f"," ","t","y","p","e"," ">>,
    Failed_to_convert_array_element_at_i |->
      <<"F","a","i","l","e","d"," ","t","o"," ","c","o","n","v","e","r","t"," ","a","r","r",
        "a","y"," ","e","l","e","m","e","n","t"," ","a","t"," ","i","n","d","e","x"," ">>,
    Failed_to_convert_map_key |->
      <<"F","a","i","l","e","d"," ","t","o"," ","c","o","n","v","e","r","t"," ","m","a","p",
        " ","k","e","y"," ","\"">> ]

\* string literals of src/src/utils/contractArgsBuilder.ts
BuilderText ==
  [ Stats_must_be_a_non_null_object |->
      <<"S","t","a","t","s"," ","m","u","s","t"," ","b","e"," ","a"," ","n","o","n","-","n",
        "u","l","l"," ","o","b","j","e","c","t">>,
    totalVolume_must_be_a_number_got |->
      <<"t","o","t","a","l","V","o","l","u","m","e"," ","m","u","s","t"," ","b","e"," ","a",
        " ","n","u","m","b","e","r",","," ","g","o","t"," ">>,
    totalVolume_must_be_non_negative_got |->
      <<"t","o","t","a","l","V","o","l","u","m","e"," ","m","u","s","t"," ","b","e"," ","n",
        "o","n","-","n","e","g","a","t","i","v","e",","," ","g","o","t"," ">>,
    totalVolume_must_be_a_finite_number |->
      <<"t","o","t","a","l","V","o","l","u","m","e"," ","m","u","s","t"," ","b","e"," ","a",
        " ","f","i","n","i","t","e"," ","n","u","m","b","e","r">>,
    mostActiveAsset_must_be_a_string_got |->
      <<"m","o","s","t","A","c","t","i","v","e","A","s","s","e","t"," ","m","u","s","t"," ",
        "b","e"," ","a"," ","s","t","r","i","n","g",","," ","g","o","t"," ">>,
    mostActiveAsset_must_not_be_empty |->
      <<"m","o","s","t","A","c","t","i","v","e","A","s","s","e","t"," ","m","u","s","t"," ",
        "n","o","t"," ","b","e"," ","e","m","p","t","y">>,
    contractCalls_must_be_a_number_got |->
      <<"c","o","n","t","r","a","c","t","C","a","l","l","s"," ","m","u","s","t"," ","b","e",
        " ","a"," ","n","u","m","b","e","r",","," ","g","o","t"," ">>,
    contractCalls_must_be_an_integer_got |->
      <<"c","o","n","t","r","a","c","t","C","a","l","l","s"," ","m","u","s","t"," ","b","e",
        " ","a","n"," ","i","n","t","e","g","e","r",","," ","g","o","t"," ">>,
    contractCalls_must_be_non_negative_g |->
      <<"c","o","n","t","r","a","c","t","C","a","l","l","s"," ","m","u","s","t"," ","b","e",
        " ","n","o","n","-","n","e","g","a","t","i","v","e",","," ","g","o","t"," ">>,
    timeframe_must_be_a_string_if_provid |->
      <<"t","i","m","e","f","r","a","m","e"," ","m","u","s","t"," ","b","e"," ","a"," ","s",
        "t","r","i","n","g"," ","i","f"," ","p","r","o","v","i","d","e","d",","," ","g","o",
        "t"," ">>,
    colon_sp |->
      <<":"," ">>,
    accountAddress |->
      <<"a","c","c","o","u","n","t","A","d","d","r","e","s","s">>,
    totalVolume |->
      <<"t","o","t","a","l","V","o","l","u","m","e">>,
    mostActiveAsset |->
      <<"m","o","s","t","A","c","t","i","v","e","A","s","s","e","t">>,
    contractCalls |->
      <<"c","o","n","t","r","a","c","t","C","a","l","l","s">>,
    timeframe |->
      <<"t","i","m","e","f","r","a","m","e">>,
    accountAddress_2 |->
      <<"a","c","c","o","u","n","t","A","d","d","r","e","s","s",":"," ">>,
    mostActiveAsset_2 |->
      <<"m","o","s","t","A","c","t","i","v","e","A","s","s","e","t",":"," ","\"">>,
    string |->
      <<"\""," ","(","s","t","r","i","n","g",")">>,
    totalVolume_2 |->
      <<"t","o","t","a","l","V","o","l","u","m","e",":"," ">>,
    u64 |->
      <<" ","(","u","6","4",")">>,
    contractCalls_2 |->
      <<"c","o","n","t","r","a","c","t","C","a","l","l","s",":"," ">>,
    u32 |->
      <<" ","(","u","3","2",")">>,
    timeframe_2 |->
      <<"t","i","m","e","f","r","a","m","e",":"," ","\"">>,
    all |->
      <<"a","l","l">>,
    total_volume |->
      <<"t","o","t","a","l","_","v","o","l","u","m","e">>,
    most_active_asset |->
      <<"m","o","s","t","_","a","c","t","i","v","e","_","a","s","s","e","t">>,
    contract_calls |->
      <<"c","o","n","t","r","a","c","t","_","c","a","l","l","s">>,
    statsMap |->
      <<"s","t","a","t","s","M","a","p">>,
    statsMap_total_volume_most_active_as |->
      <<"s","t","a","t","s","M","a","p",":"," ","{"," ","t","o","t","a","l","_","v","o","l",
        "u","m","e",","," ","m","o","s","t","_","a","c","t","i","v","e","_","a","s","s","e",
        "t",","," ","c","o","n","t","r","a","c","t","_","c","a","l","l","s"," ","}">> ]

\* string literals of src/src/services/contractBridge.ts
BridgeText ==
  [ insufficient_fee |->
      <<"i","n","s","u","f","f","i","c","i","e","n","t","_","f","e","e">>,
    fee |->
      <<"f","e","e">>,
    HostError |->
      <<"H","o","s","t","E","r","r","o","r">>,
    ContractError |->
      <<"C","o","n","t","r","a","c","t","E","r","r","o","r">>,
    User_declined |->
      <<"U","s","e","r"," ","d","e","c","l","i","n","e","d">>,
    rejected |->
      <<"r","e","j","e","c","t","e","d">>,
    network |->
      <<"n","e","t","w","o","r","k">>,
    timeout |->
      <<"t","i","m","e","o","u","t">>,
    Insufficient_transaction_fee_Please |->
      <<"I","n","s","u","f","f","i","c","i","e","n","t"," ","t","r","a","n","s","a","c","t",
        "i","o","n"," ","f","e","e","."," ","P","l","e","a","s","e"," ","t","r","y"," ","a",
        "g","a","i","n",".">>,
    Contract_error |->
      <<"C","o","n","t","r","a","c","t"," ","e","r","r","o","r",":"," ">>,
    Transaction_was_rejected_by_user |->
      <<"T","r","a","n","s","a","c","t","i","o","n"," ","w","a","s"," ","r","e","j","e","c",
        "t","e","d"," ","b","y"," ","u","s","e","r">>,
    Network_error_Please_check_your_conn |->
      <<"N","e","t","w","o","r","k"," ","e","r","r","o","r","."," ","P","l","e","a","s","e",
        " ","c","h","e","c","k"," ","y","o","u","r"," ","c","o","n","n","e","c","t","i","o",
        "n"," ","a","n","d"," ","t","r","y"," ","a","g","a","i","n",".">>,
    Unknown_error_occurred_during_transa |->
      <<"U","n","k","n","o","w","n"," ","e","r","r","o","r"," ","o","c","c","u","r","r","e",
        "d"," ","d","u","r","i","n","g"," ","t","r","a","n","s","a","c","t","i","o","n">>,
    Transaction_confirmation_timeout |->
      <<"T","r","a","n","s","a","c","t","i","o","n"," ","c","o","n","f","i","r","m","a","t",
        "i","o","n"," ","t","i","m","e","o","u","t">>,
    Transaction_not_confirmed_after |->
      <<"T","r","a","n","s","a","c","t","i","o","n"," ","n","o","t"," ","c","o","n","f","i",
        "r","m","e","d"," ","a","f","t","e","r"," ">>,
    attempts |->
      <<" ","a","t","t","e","m","p","t","s">>,
    Transaction_failed_on_network |->
      <<"T","r","a","n","s","a","c","t","i","o","n"," ","f","a","i","l","e","d"," ","o","n",
        " ","n","e","t","w","o","r","k">>,
    CAAAAAAAA |->
      <<"C","A","A","A","A","A","A","A","A">>,
    Invalid_contract_address_for |->
      <<"I","n","v","a","l","i","d"," ","c","o","n","t","r","a","c","t"," ","a","d","d","r",
        "e","s","s"," ","f","o","r"," ">>,
    Please_configure_NEXT_PUBLIC_CONTRAC |->
      <<"."," ","P","l","e","a","s","e"," ","c","o","n","f","i","g","u","r","e"," ","N","E",
        "X","T","_","P","U","B","L","I","C","_","C","O","N","T","R","A","C","T","_","A","D",
        "D","R","E","S","S","_">>,
    environment_variable |->
      <<" ","e","n","v","i","r","o","n","m","e","n","t"," ","v","a","r","i","a","b","l","e",
        ".">>,
    Not_Found |->
      <<"N","o","t"," ","F","o","u","n","d">>,
    n4_0_4 |->
      <<"4","0","4">>,
    Account |->
      <<"A","c","c","o","u","n","t"," ">>,
    not_found_on |->
      <<" ","n","o","t"," ","f","o","u","n","d"," ","o","n"," ">>,
    Please_ensure_the_account_exists_and |->
      <<"."," ","P","l","e","a","s","e"," ","e","n","s","u","r","e"," ","t","h","e"," ","a",
        "c","c","o","u","n","t"," ","e","x","i","s","t","s"," ","a","n","d"," ","i","s"," ",
        "f","u","n","d","e","d"," ","o","n"," ","t","h","e"," ">>,
    network_2 |->
      <<" ","n","e","t","w","o","r","k",".">>,
    Failed_to_load_account |->
      <<"F","a","i","l","e","d"," ","t","o"," ","l","o","a","d"," ","a","c","c","o","u","n",
        "t",":"," ">>,
    Please_check_that_the_account_addres |->
      <<"."," ","P","l","e","a","s","e"," ","c","h","e","c","k"," ","t","h","a","t"," ","t",
        "h","e"," ","a","c","c","o","u","n","t"," ","a","d","d","r","e","s","s"," ","i","s",
        " ","c","o","r","r","e","c","t"," ","a","n","d"," ","e","x","i","s","t","s"," ","o",
        "n"," ">>,
    dot |->
      <<".">>,
    mint_wrap |->
      <<"m","i","n","t","_","w","r","a","p">>,
    Failed_to_build_contract_arguments |->
      <<"F","a","i","l","e","d"," ","t","o"," ","b","u","i","l","d"," ","c","o","n","t","r",
        "a","c","t"," ","a","r","g","u","m","e","n","t","s",":"," ">>,
    Transaction_simulation_error |->
      <<"T","r","a","n","s","a","c","t","i","o","n"," ","s","i","m","u","l","a","t","i","o",
        "n"," ","e","r","r","o","r",":"," ">>,
    Transaction_simulation_failed |->
      <<"T","r","a","n","s","a","c","t","i","o","n"," ","s","i","m","u","l","a","t","i","o",
        "n"," ","f","a","i","l","e","d",":"," ">>,
    Signing_failed |->
      <<"S","i","g","n","i","n","g"," ","f","a","i","l","e","d",":"," ">>,
    Freighter_returned_empty_signed_tran |->
      <<"F","r","e","i","g","h","t","e","r"," ","r","e","t","u","r","n","e","d"," ","e","m",
        "p","t","y"," ","s","i","g","n","e","d"," ","t","r","a","n","s","a","c","t","i","o",
        "n">>,
    Transaction_submission_failed |->
      <<"T","r","a","n","s","a","c","t","i","o","n"," ","s","u","b","m","i","s","s","i","o",
        "n"," ","f","a","i","l","e","d",":"," ">>,
    Transaction_submitted_but_no_hash_re |->
      <<"T","r","a","n","s","a","c","t","i","o","n"," ","s","u","b","m","i","t","t","e","d",
        " ","b","u","t"," ","n","o"," ","h","a","s","h"," ","r","e","t","u","r","n","e","d">>,
    Minting_failed |->
      <<"M","i","n","t","i","n","g"," ","f","a","i","l","e","d",":"," ">>,
    Transaction_failed |->
      <<"T","r","a","n","s","a","c","t","i","o","n"," ","f","a","i","l","e","d">> ]

\* string literals of src/app/utils/walletKit.ts
KitText ==
  [ XLM |->
      <<"X","L","M">>,
    Failed_to_fetch_indexed_stats |->
      <<"F","a","i","l","e","d"," ","t","o"," ","f","e","t","c","h"," ","i","n","d","e","x",
        "e","d"," ","s","t","a","t","s",":"," ">>,
    all |->
      <<"a","l","l">>,
    Minting_failed |->
      <<"M","i","n","t","i","n","g"," ","f","a","i","l","e","d",":"," ">>,
    Minting_failed_Unknown_error_occurre |->
      <<"M","i","n","t","i","n","g"," ","f","a","i","l","e","d",":"," ","U","n","k","n","o",
        "w","n"," ","e","r","r","o","r"," ","o","c","c","u","r","r","e","d">> ]

\* messages of the errors stellar-sdk and the JavaScript engine throw
LibraryText ==
  [ The_number |->
      <<"T","h","e"," ","n","u","m","b","e","r"," ">>,
    cannot_be_converted_to_a_BigInt_beca |->
      <<" ","c","a","n","n","o","t"," ","b","e"," ","c","o","n","v","e","r","t","e","d"," ",
        "t","o"," ","a"," ","B","i","g","I","n","t"," ","b","e","c","a","u","s","e"," ","i",
        "t"," ","i","s"," ","n","o","t"," ","a","n"," ","i","n","t","e","g","e","r">>,
    Invalid_contract_ID |->
      <<"I","n","v","a","l","i","d"," ","c","o","n","t","r","a","c","t"," ","I","D",":"," ">>,
    XDR_Read_Error_attempt_to_read_outsi |->
      <<"X","D","R"," ","R","e","a","d"," ","E","r","r","o","r",":"," ","a","t","t","e","m",
        "p","t"," ","t","o"," ","r","e","a","d"," ","o","u","t","s","i","d","e"," ","t","h",
        "e"," ","b","o","u","n","d","a","r","y"," ","o","f"," ","t","h","e"," ","b","u","f",
        "f","e","r">>,
    bigint_values_out_of_range |->
      <<"b","i","g","i","n","t"," ","v","a","l","u","e","s"," ","o","u","t"," ","o","f"," ",
        "r","a","n","g","e">>,
    Cannot_read_properties_of |->
      <<"C","a","n","n","o","t"," ","r","e","a","d"," ","p","r","o","p","e","r","t","i","e",
        "s"," ","o","f"," ">>,
    reading_totalVolume |->
      <<" ","(","r","e","a","d","i","n","g"," ","'","t","o","t","a","l","V","o","l","u","m",
        "e","'",")">> ]

\* texts of the inputs and of the answers of the collaborators
SampleText ==
  [ GAAZI4TCR3TY5OJHCTJC2A4QSY6CJWJH5IAJ |->
      <<"G","A","A","Z","I","4","T","C","R","3","T","Y","5","O","J","H","C","T","J","C","2",
        "A","4","Q","S","Y","6","C","J","W","J","H","5","I","A","J","T","G","K","I","N","2",
        "E","R","7","L","B","N","V","K","O","C","C","W","N","7">>,
    GAZN3PPIDQCSP5RK7F5FVWWGYLRPLTW7GYXJ |->
      <<"G","A","Z","N","3","P","P","I","D","Q","C","S","P","5","R","K","7","F","5","F","V",
        "W","W","G","Y","L","R","P","L","T","W","7","G","Y","X","J","J","W","Q","L","W","T",
        "S","L","7","6","U","Z","A","5","H","M","5","O","F","J">>,
    CA3D5KRYM6CB7OWQ6TWYRR3Z4T7GNZLKERYN |->
      <<"C","A","3","D","5","K","R","Y","M","6","C","B","7","O","W","Q","6","T","W","Y","R",
        "R","3","Z","4","T","7","G","N","Z","L","K","E","R","Y","N","Z","G","G","A","5","S",
        "O","A","O","P","I","F","Y","6","Y","Q","G","A","X","E">>,
    CAAZI4TCR3TY5OJHCTJC2A4QSY6CJWJH5IAJ |->
      <<"C","A","A","Z","I","4","T","C","R","3","T","Y","5","O","J","H","C","T","J","C","2",
        "A","4","Q","S","Y","6","C","J","W","J","H","5","I","A","J","T","G","K","I","N","2",
        "E","R","7","L","B","N","V","K","O","C","C","W","N","7">>,
    CAAQEAYEAUDAOCAJBIFQYDIOB4IBCEQTCQKR |->
      <<"C","A","A","Q","E","A","Y","E","A","U","D","A","O","C","A","J","B","I","F","Q","Y",
        "D","I","O","B","4","I","B","C","E","Q","T","C","Q","K","R","M","F","Y","Y","D","E",
        "N","B","W","H","A","5","D","Y","P","S","B","F","L","M">>,
    invalid_address |->
      <<"i","n","v","a","l","i","d","-","a","d","d","r","e","s","s">>,
    XLM |->
      <<"X","L","M">>,
    yearly |->
      <<"y","e","a","r","l","y">>,
    sp_sp |->
      <<" "," ">>,
    devnet |->
      <<"d","e","v","n","e","t">>,
    not_a_contract |->
      <<"n","o","t","-","a","-","c","o","n","t","r","a","c","t">>,
    Not_Found |->
      <<"N","o","t"," ","F","o","u","n","d">>,
    Request_failed_with_status_code_500 |->
      <<"R","e","q","u","e","s","t"," ","f","a","i","l","e","d"," ","w","i","t","h"," ","s",
        "t","a","t","u","s"," ","c","o","d","e"," ","5","0","0">>,
    socket_hang_up |->
      <<"s","o","c","k","e","t"," ","h","a","n","g"," ","u","p">>,
    HostError_Error_Contract_1 |->
      <<"H","o","s","t","E","r","r","o","r",":"," ","E","r","r","o","r","(","C","o","n","t",
        "r","a","c","t",","," ","#","1",")">>,
    network_request_failed |->
      <<"n","e","t","w","o","r","k"," ","r","e","q","u","e","s","t"," ","f","a","i","l","e",
        "d">>,
    AAAAAgAAAAA |->
      <<"A","A","A","A","A","g","A","A","A","A","A","=">>,
    not_xdr |->
      <<"n","o","t","-","x","d","r">>,
    User_declined_access |->
      <<"U","s","e","r"," ","d","e","c","l","i","n","e","d"," ","a","c","c","e","s","s">>,
    User_declined_HostError_in_preview |->
      <<"U","s","e","r"," ","d","e","c","l","i","n","e","d",":"," ","H","o","s","t","E","r",
        "r","o","r"," ","i","n"," ","p","r","e","v","i","e","w">>,
    User_declined_to_pay_the_fee |->
      <<"U","s","e","r"," ","d","e","c","l","i","n","e","d"," ","t","o"," ","p","a","y"," ",
        "t","h","e"," ","f","e","e">>,
    Freighter_is_not_connected |->
      <<"F","r","e","i","g","h","t","e","r"," ","i","s"," ","n","o","t"," ","c","o","n","n",
        "e","c","t","e","d">>,
    a1b2 |->
      <<"a","1","b","2">>,
    c3d4 |->
      <<"c","3","d","4">>,
    insufficient_fee |->
      <<"i","n","s","u","f","f","i","c","i","e","n","t","_","f","e","e">>,
    fetch_failed |->
      <<"f","e","t","c","h"," ","f","a","i","l","e","d">>,
    Transaction_failed_to_load |->
      <<"T","r","a","n","s","a","c","t","i","o","n"," ","f","a","i","l","e","d"," ","t","o",
        " ","l","o","a","d">>,
    sp |->
      <<" ">>,
    n4_2 |->
      <<"4","2">>,
    hello |->
      <<"h","e","l","l","o">>,
    a |->
      <<"a">>,
    total_volume |->
      <<"t","o","t","a","l","_","v","o","l","u","m","e">>,
    n9lives |->
      <<"9","l","i","v","e","s">>,
    inner |->
      <<"i","n","n","e","r">>,
    Failed_to_fetch |->
      <<"F","a","i","l","e","d"," ","t","o"," ","f","e","t","c","h">>,
    Internal_Server_Error |->
      <<"I","n","t","e","r","n","a","l"," ","S","e","r","v","e","r"," ","E","r","r","o","r">>,
    OK |->
      <<"O","K">>,
    Unexpected_token_in_JSON_at_position |->
      <<"U","n","e","x","p","e","c","t","e","d"," ","t","o","k","e","n"," ","<"," ","i","n",
        " ","J","S","O","N"," ","a","t"," ","p","o","s","i","t","i","o","n"," ","0">>,
    USDC |->
      <<"U","S","D","C">>,
    all |->
      <<"a","l","l">>,
    Minting_failed |->
      <<"M","i","n","t","i","n","g"," ","f","a","i","l","e","d",":"," ">> ]

\* ------------------------------------------------------------------------
\* Strings
\* ------------------------------------------------------------------------

\* String.prototype.includes
Includes(s, needle) ==
  \E i \in 1..(Len(s) - Len(needle) + 1) : SubSeq(s, i, i + Len(needle) - 1) = needle

\* String.prototype.startsWith
StartsWith(s, prefix) ==
  Len(s) >= Len(prefix) /\ SubSeq(s, 1, Len(prefix)) = prefix

\* String.prototype.slice(0, n)
Slice0(s, n) == SubSeq(s, 1, IF Len(s) < n THEN Len(s) ELSE n)

\* String.prototype.trim (the inputs only carry blanks as white space)
Trimmed[s \in Seq(STRING)] ==
  IF \A i \in 1..Len(s) : s[i] = " " THEN <<>>
  ELSE SubSeq(s,
              CHOOSE lo \in 1..Len(s) : s[lo] # " " /\ \A j \in 1..(lo - 1) : s[j] = " ",
              CHOOSE hi \in 1..Len(s) : s[hi] # " " /\ \A j \in (hi + 1)..Len(s) : s[j] = " ")

Trim(s) == Trimmed[s]

UpperLetters ==
  {"A","B","C","D","E","F","G","H","I","J","K","L","M",
   "N","O","P","Q","R","S","T","U","V","W","X","Y","Z"}

\* the character class [A-Z2-7]
Base32Chars == UpperLetters \cup {"2","3","4","5","6","7"}

\* Array.prototype.join(', ')
Joined[list \in Seq(Seq(STRING))] ==
  IF list = <<>> THEN <<>>
  ELSE IF Len(list) = 1 THEN list[1]
  ELSE list[1] \o JsText.comma_sp \o Joined[Tail(list)]

Join(list) == Joined[list]

\* ------------------------------------------------------------------------
\* Numbers
\* ------------------------------------------------------------------------

LimbBase == 2^16

\* magnitude comparison on limb sequences without leading zero limbs
MagLess(a, b) ==
  \/ Len(a) < Len(b)
  \/ /\ Len(a) = Len(b)
     /\ \E i \in 1..Len(a) : a[i] < b[i] /\ \A j \in 1..(i - 1) : a[j] = b[j]

RECURSIVE StripZeros(_)
StripZeros(m) ==
  IF m # <<>> /\ m[1] = 0 THEN StripZeros(Tail(m)) ELSE m

\* mag + 1
RECURSIVE MagInc(_)
MagInc(m) ==
  IF m = <<>> THEN <<1>>
  ELSE LET n == Len(m)
       IN  IF m[n] + 1 < LimbBase THEN SubSeq(m, 1, n - 1) \o <<m[n] + 1>>
           ELSE MagInc(SubSeq(m, 1, n - 1)) \o <<0>>

\* quotient and remainder of a magnitude by ten, limb by limb
RECURSIVE DivTen(_, _, _)
DivTen(m, i, carry) ==
  IF i > Len(m) THEN [q |-> <<>>, r |-> carry]
  ELSE LET cur  == carry * LimbBase + m[i]
           rest == DivTen(m, i + 1, cur % 10)
       IN  [q |-> <<cur \div 10>> \o rest.q, r |-> rest.r]

Digit(d) == <<"0","1","2","3","4","5","6","7","8","9">>[d + 1]

\* decimal digits of a magnitude
Digits[m \in Seq(Nat)] ==
  IF m = <<>> THEN JsText.n0
  ELSE LET d == DivTen(m, 1, 0)
           q == StripZeros(d.q)
       IN  IF q = <<>> THEN <<Digit(d.r)>> ELSE Digits[q] \o <<Digit(d.r)>>

Decimal(m) == Digits[m]

\* ------------------------------------------------------------------------
\* JavaScript values
\* ------------------------------------------------------------------------

Undefined == [t |-> "undefined"]
JsString(s) == [t |-> "string", s |-> s]
JsNaN == [t |-> "number", k |-> "NaN"]
JsInfinity == [t |-> "number", k |-> "Infinity"]
\* the finite number sign * (mag + frac/2)
JsNumber(neg, mag, frac) ==
  [t |-> "number", k |-> "finite", neg |-> neg, mag |-> mag, frac |-> frac]
JsBigInt(neg, mag) == [t |-> "bigint", neg |-> neg, mag |-> mag]

\* typeof, as text
TypeOf(v) ==
  CASE v.t = "undefined" -> JsText.undefined
    [] v.t = "string"    -> JsText.string
    [] v.t = "number"    -> JsText.number
    [] v.t = "bigint"    -> JsText.bigint
    [] v.t = "boolean"   -> JsText.boolean
    [] v.t = "function"  -> JsText.function
    [] v.t = "symbol"    -> JsText.symbol
    [] OTHER             -> JsText.object

IsFiniteNumber(v) == v.t = "number" /\ v.k = "finite"
IsZero(v) == v.mag = <<>> /\ ~v.frac
\* Number.isInteger
IsInteger(v) == IsFiniteNumber(v) /\ ~v.frac
\* value < 0
IsNegative(v) == IsFiniteNumber(v) /\ v.neg /\ ~IsZero(v)

\* String(value) for the numbers of the model (exactly representable ones)
NumberToString(v) ==
  CASE v.k = "NaN"      -> JsText.NaN
    [] v.k = "Infinity" -> JsText.Infinity
    [] OTHER ->
         (IF IsNegative(v) THEN JsText.minus ELSE <<>>) \o Decimal(v.mag)
           \o (IF v.frac THEN JsText.dot_5 ELSE <<>>)

\* BigInt(Math.floor(value)): throws a RangeError for NaN and Infinity
FloorToBigInt(v) ==
  IF ~IsFiniteNumber(v) THEN [threw |-> TRUE]
  ELSE IF v.frac /\ v.neg THEN [threw |-> FALSE, neg |-> TRUE, mag |-> MagInc(v.mag)]
  ELSE [threw |-> FALSE, neg |-> v.neg /\ v.mag # <<>>, mag |-> v.mag]

JsNull == [t |-> "null"]

\* String(value) / template-literal interpolation of a value
ToText(v) ==
  CASE v.t = "undefined" -> JsText.undefined
    [] v.t = "null"      -> JsText.null
    [] v.t = "string"    -> v.s
    [] v.t = "number"    -> NumberToString(v)
    [] v.t = "bigint"    -> (IF v.neg THEN JsText.minus ELSE <<>>) \o Decimal(v.mag)
    [] OTHER             -> JsText.object_Object

\* thrown values: an Error instance, a bare string, or some other object
JsError(msg) == [kind |-> "Error", message |-> msg]
StringError(msg) == [kind |-> "string", message |-> msg]
ObjectError == [kind |-> "object", message |-> <<>>]

\* outcome of a call: a returned value or a thrown error
Return(v) == [threw |-> FALSE, value |-> v]
Throw(e) == [threw |-> TRUE, error |-> e]

\* ------------------------------------------------------------------------
\* src/src/config.ts and src/config/contracts.ts
\* ------------------------------------------------------------------------

Mainnet == ConfigText.mainnet
Testnet == ConfigText.testnet

DEFAULT_NETWORK == Mainnet

isValidNetwork(network) == network = Mainnet \/ network = Testnet

LowerLetters ==
  <<"a","b","c","d","e","f","g","h","i","j","k","l","m",
    "n","o","p","q","r","s","t","u","v","w","x","y","z">>
UpperOf ==
  <<"A","B","C","D","E","F","G","H","I","J","K","L","M",
    "N","O","P","Q","R","S","T","U","V","W","X","Y","Z">>

\* String.prototype.toUpperCase
toUpperCase(s) ==
  [i \in 1..Len(s) |->
     IF \E k \in 1..26 : LowerLetters[k] = s[i]
     THEN UpperOf[CHOOSE k \in 1..26 : LowerLetters[k] = s[i]]
     ELSE s[i]]

\* "C" + "A".repeat(55)
PLACEHOLDER_ADDRESS == [i \in 1..56 |-> IF i = 1 THEN "C" ELSE "A"]

\* process.env: an unset variable and an empty one are both falsy, both <<>>
\* a || b || c
OrElse(a, b) == IF a # <<>> THEN a ELSE b

getContractConfig(env) ==
  [mainnet |-> OrElse(env.MAINNET, OrElse(env.LEGACY, PLACEHOLDER_ADDRESS)),
   testnet |-> OrElse(env.TESTNET, OrElse(env.LEGACY, PLACEHOLDER_ADDRESS))]

\* /^C[A-Z2-7]{55}$/
CONTRACT_ADDRESS_REGEX(address) ==
  /\ Len(address) = 56
  /\ address[1] = "C"
  /\ \A i \in 2..56 : address[i] \in Base32Chars

isValidContractAddress(address) ==
  Len(address) = 56 /\ CONTRACT_ADDRESS_REGEX(address)

\* getContractAddress once the address of the network is read from the configuration
checkContractAddress(address, network) ==
  IF ~isValidContractAddress(address)
  THEN Throw(JsError(ConfigText.Invalid_contract_address_for \o network
         \o ConfigText.address_must_be_56_characters_C_pref
         \o Slice0(address, 20) \o ConfigText.dot_dot_dot))
  ELSE Return(address)

getContractAddress(env, network) ==
  IF ~isValidNetwork(network)
  THEN Throw(JsError(ConfigText.Invalid_network \o network))
  ELSE checkContractAddress(IF network = Mainnet THEN getContractConfig(env).mainnet
                            ELSE getContractConfig(env).testnet,
                            network)

\* ------------------------------------------------------------------------
\* stellar-sdk StrKey: which sample keys carry a valid version byte and
\* CRC16 checksum (the library is a collaborator; these are its answers)
\* ------------------------------------------------------------------------

ValidAccountKey == SampleText.GAAZI4TCR3TY5OJHCTJC2A4QSY6CJWJH5IAJ
BadChecksumAccountKey == SampleText.GAZN3PPIDQCSP5RK7F5FVWWGYLRPLTW7GYXJ
ValidContractKey == SampleText.CA3D5KRYM6CB7OWQ6TWYRR3Z4T7GNZLKERYN
BadChecksumContractKey == SampleText.CAAZI4TCR3TY5OJHCTJC2A4QSY6CJWJH5IAJ

StrKey_isValidEd25519PublicKey(s) == s = ValidAccountKey
SecondContractKey == SampleText.CAAQEAYEAUDAOCAJBIFQYDIOB4IBCEQTCQKR

StrKey_isValidContract(s) == s \in {ValidContractKey, SecondContractKey}

\* ------------------------------------------------------------------------
\* src/src/utils/sorobanConverter.ts
\* ------------------------------------------------------------------------

\* 2 ** 32 - 1
U32_MAX == <<65535, 65535>>
\* BigInt("18446744073709551615")
U64_MAX == <<65535, 65535, 65535, 65535>>
MAX_STRING_LENGTH == 256000

Success(scval) == [success |-> TRUE, value |-> scval]
Failure(msg) == [success |-> FALSE, error |-> msg]
isConversionError(r) == ~r.success

\* isValidU32 with the bound off by one: value <= U32_MAX + 1
isValidU32UpTo2To32(value) ==
  IsInteger(value) /\ ~IsNegative(value) /\ ~MagLess(MagInc(U32_MAX), value.mag)

isValidU32(value) ==
  IsInteger(value) /\ ~IsNegative(value) /\ ~MagLess(U32_MAX, value.mag)

isValidU64(big) ==
  (~big.neg \/ big.mag = <<>>) /\ ~MagLess(U64_MAX, big.mag)

isValidStellarAddress(address) ==
  IF address = <<>> THEN FALSE
  ELSE LET trimmed == Trim(address)
       IN  IF StartsWith(trimmed, ConverterText.G) /\ Len(trimmed) = 56
           THEN StrKey_isValidEd25519PublicKey(trimmed)
           ELSE IF StartsWith(trimmed, ConverterText.C) /\ Len(trimmed) = 56
           THEN StrKey_isValidContract(trimmed)
           ELSE FALSE

\* Buffer.byteLength(value, "utf8") of the ASCII strings of the model
isValidScString(value) == value.t = "string" /\ Len(value.s) <= MAX_STRING_LENGTH

numberToScValU32(value) ==
  IF value.t # "number" \/ value.k = "NaN"
  THEN Failure(ConverterText.Invalid_number_value \o ToText(value))
  ELSE IF ~isValidU32(value)
  THEN Failure(ConverterText.Value \o ToText(value) \o ConverterText.is_out_of_u32_range_0
                 \o Decimal(U32_MAX) \o ConverterText.rbr)
  ELSE Success([type |-> "scvU32", value |-> value.mag])

\* numberToScValU64 once bigVal is computed (or BigInt has thrown)
rangeCheckU64(value, bigVal) ==
  IF bigVal.threw
  THEN Failure(ConverterText.Failed_to_convert \o ToText(value) \o ConverterText.to_ScVal_u64
                 \o LibraryText.The_number \o ToText(value)
                 \o LibraryText.cannot_be_converted_to_a_BigInt_beca)
  ELSE IF bigVal.neg /\ bigVal.mag # <<>>
  THEN Failure(ConverterText.Value \o ToText(value)
                 \o ConverterText.is_negative_u64_requires_non_negativ)
  ELSE IF ~isValidU64(bigVal)
  THEN Failure(ConverterText.Value \o ToText(value) \o ConverterText.exceeds_u64_max
                 \o Decimal(U64_MAX) \o ConverterText.rpar)
  ELSE Success([type |-> "scvU64", value |-> bigVal.mag])

numberToScValU64(value) ==
  rangeCheckU64(value,
                IF value.t = "bigint"
                THEN [threw |-> FALSE, neg |-> value.neg, mag |-> value.mag]
                ELSE FloorToBigInt(value))

stringToScVal(value) ==
  IF value.t # "string"
  THEN Failure(ConverterText.Expected_string_but_received \o TypeOf(value))
  ELSE IF ~isValidScString(value)
  THEN Failure(ConverterText.String_exceeds_maximum_length_of_256)
  ELSE Success([type |-> "scvString", value |-> value.s])

addressToScVal(address) ==
  IF address.t # "string"
  THEN Failure(ConverterText.Expected_string_address_but_received \o TypeOf(address))
  ELSE LET trimmed == Trim(address.s)
       IN  IF ~isValidStellarAddress(trimmed)
           THEN Failure(ConverterText.Invalid_Stellar_address \o trimmed
                  \o ConverterText.Must_be_a_56_character_G_account_or)
           ELSE Success([type |-> "scvAddress", value |-> trimmed])

\* toScVal with an explicit target type
toScVal(value, type) ==
  CASE type = "u32"     -> numberToScValU32(value)
    [] type = "u64"     -> numberToScValU64(value)
    [] type = "string"  -> stringToScVal(value)
    [] type = "address" -> addressToScVal(value)

\* ------------------------------------------------------------------------
\* src/src/utils/contractArgsBuilder.ts
\* ------------------------------------------------------------------------

\* a stats object; an absent timeframe is Undefined
StatsObject(totalVolume, mostActiveAsset, contractCalls, timeframe) ==
  [t |-> "object", totalVolume |-> totalVolume, mostActiveAsset |-> mostActiveAsset,
   contractCalls |-> contractCalls, timeframe |-> timeframe]

validateIndexedStats(stats) ==
  IF stats.t # "object" THEN <<BuilderText.Stats_must_be_a_non_null_object>>
  ELSE
    (IF stats.totalVolume.t # "number"
     THEN <<BuilderText.totalVolume_must_be_a_number_got \o TypeOf(stats.totalVolume)>>
     ELSE IF IsNegative(stats.totalVolume)
     THEN <<BuilderText.totalVolume_must_be_non_negative_got \o ToText(stats.totalVolume)>>
     ELSE IF ~IsFiniteNumber(stats.totalVolume)
     THEN <<BuilderText.totalVolume_must_be_a_finite_number>>
     ELSE <<>>)
    \o
    (IF stats.mostActiveAsset.t # "string"
     THEN <<BuilderText.mostActiveAsset_must_be_a_string_got \o TypeOf(stats.mostActiveAsset)>>
     ELSE IF Len(Trim(stats.mostActiveAsset.s)) = 0
     THEN <<BuilderText.mostActiveAsset_must_not_be_empty>>
     ELSE <<>>)
    \o
    (IF stats.contractCalls.t # "number"
     THEN <<BuilderText.contractCalls_must_be_a_number_got \o TypeOf(stats.contractCalls)>>
     ELSE IF ~IsInteger(stats.contractCalls)
     THEN <<BuilderText.contractCalls_must_be_an_integer_got \o ToText(stats.contractCalls)>>
     ELSE IF IsNegative(stats.contractCalls)
     THEN <<BuilderText.contractCalls_must_be_non_negative_g \o ToText(stats.contractCalls)>>
     ELSE <<>>)
    \o
    (IF stats.timeframe.t # "undefined" /\ stats.timeframe.t # "string"
     THEN <<BuilderText.timeframe_must_be_a_string_if_provid \o TypeOf(stats.timeframe)>>
     ELSE <<>>)

\* unwrap: the error entry a failed conversion adds, and the value a successful one adds
unwrapError(result, label) ==
  IF isConversionError(result) THEN <<label \o BuilderText.colon_sp \o result.error>> ELSE <<>>
unwrapValue(result) ==
  IF isConversionError(result) THEN <<>> ELSE <<result.value>>
describe(result, line) ==
  IF isConversionError(result) THEN <<>> ELSE <<line>>

\* collectArgs with the asset converted before the volume
collectArgsAssetFirst(addr, volume, asset, calls, tf, stats, accountAddress, timeframe) ==
  IF Len(unwrapError(addr, BuilderText.accountAddress) \o unwrapError(volume, BuilderText.totalVolume)
           \o unwrapError(asset, BuilderText.mostActiveAsset)
           \o unwrapError(calls, BuilderText.contractCalls) \o unwrapError(tf, BuilderText.timeframe)) > 0
  THEN [success |-> FALSE,
        errors |-> unwrapError(addr, BuilderText.accountAddress)
                     \o unwrapError(asset, BuilderText.mostActiveAsset)
                     \o unwrapError(volume, BuilderText.totalVolume)
                     \o unwrapError(calls, BuilderText.contractCalls)
                     \o unwrapError(tf, BuilderText.timeframe)]
  ELSE [success |-> TRUE,
        data |->
          [args |-> unwrapValue(addr) \o unwrapValue(asset) \o unwrapValue(volume)
                      \o unwrapValue(calls) \o unwrapValue(tf),
           argDescriptions |->
                describe(addr, BuilderText.accountAddress_2 \o ToText(accountAddress))
             \o describe(asset, BuilderText.mostActiveAsset_2 \o ToText(stats.mostActiveAsset)
                                  \o BuilderText.string)
             \o describe(volume, BuilderText.totalVolume_2 \o ToText(stats.totalVolume)
                                   \o BuilderText.u64)
             \o describe(calls, BuilderText.contractCalls_2 \o ToText(stats.contractCalls)
                                  \o BuilderText.u32)
             \o describe(tf, BuilderText.timeframe_2 \o ToText(timeframe)
                               \o BuilderText.string)]]

\* collectArgs returning, next to the errors, the arguments that did convert
collectArgsKeepingPartial(addr, volume, asset, calls, tf, stats, accountAddress, timeframe) ==
  IF Len(unwrapError(addr, BuilderText.accountAddress) \o unwrapError(volume, BuilderText.totalVolume)
           \o unwrapError(asset, BuilderText.mostActiveAsset)
           \o unwrapError(calls, BuilderText.contractCalls) \o unwrapError(tf, BuilderText.timeframe)) > 0
  THEN [success |-> FALSE,
        errors |-> unwrapError(addr, BuilderText.accountAddress)
                     \o unwrapError(volume, BuilderText.totalVolume)
                     \o unwrapError(asset, BuilderText.mostActiveAsset)
                     \o unwrapError(calls, BuilderText.contractCalls)
                     \o unwrapError(tf, BuilderText.timeframe),
        data |-> [args |-> unwrapValue(addr) \o unwrapValue(volume) \o unwrapValue(asset)
                             \o unwrapValue(calls) \o unwrapValue(tf)]]
  ELSE [success |-> TRUE,
        data |->
          [args |-> unwrapValue(addr) \o unwrapValue(volume) \o unwrapValue(asset)
                      \o unwrapValue(calls) \o unwrapValue(tf),
           argDescriptions |->
                describe(addr, BuilderText.accountAddress_2 \o ToText(accountAddress))
             \o describe(volume, BuilderText.totalVolume_2 \o ToText(stats.totalVolume)
                                   \o BuilderText.u64)
             \o describe(asset, BuilderText.mostActiveAsset_2 \o ToText(stats.mostActiveAsset)
                                  \o BuilderText.string)
             \o describe(calls, BuilderText.contractCalls_2 \o ToText(stats.contractCalls)
                                  \o BuilderText.u32)
             \o describe(tf, BuilderText.timeframe_2 \o ToText(timeframe)
                               \o BuilderText.string)]]

\* buildContractArgs, steps 2 to 6 and the result, given the five conversion results
collectArgs(addr, volume, asset, calls, tf, stats, accountAddress, timeframe) ==
  LET errors == unwrapError(addr, BuilderText.accountAddress)
                  \o unwrapError(volume, BuilderText.totalVolume)
                  \o unwrapError(asset, BuilderText.mostActiveAsset)
                  \o unwrapError(calls, BuilderText.contractCalls)
                  \o unwrapError(tf, BuilderText.timeframe)
  IN  IF Len(errors) > 0
      THEN [success |-> FALSE, errors |-> errors]
      ELSE [success |-> TRUE,
            data |->
              [args |-> unwrapValue(addr) \o unwrapValue(volume) \o unwrapValue(asset)
                          \o unwrapValue(calls) \o unwrapValue(tf),
               argDescriptions |->
                    describe(addr, BuilderText.accountAddress_2 \o ToText(accountAddress))
                 \o describe(volume, BuilderText.totalVolume_2 \o ToText(stats.totalVolume)
                                       \o BuilderText.u64)
                 \o describe(asset, BuilderText.mostActiveAsset_2 \o ToText(stats.mostActiveAsset)
                                      \o BuilderText.string)
                 \o describe(calls, BuilderText.contractCalls_2 \o ToText(stats.contractCalls)
                                      \o BuilderText.u32)
                 \o describe(tf, BuilderText.timeframe_2 \o ToText(timeframe)
                                   \o BuilderText.string)]]

\* stats.timeframe ?? "all"
timeframeOrAll(stats) ==
  IF stats.timeframe.t = "undefined" THEN JsString(BuilderText.all) ELSE stats.timeframe

\* buildContractArgs once the stats are validated
convertArgs(validationErrors, stats, accountAddress) ==
  IF Len(validationErrors) > 0
  THEN [success |-> FALSE, errors |-> validationErrors]
  ELSE collectArgs(addressToScVal(accountAddress),
                   toScVal(stats.totalVolume, "u64"),
                   toScVal(stats.mostActiveAsset, "string"),
                   toScVal(stats.contractCalls, "u32"),
                   toScVal(timeframeOrAll(stats), "string"),
                   stats, accountAddress, timeframeOrAll(stats))

buildContractArgs(stats, accountAddress) ==
  convertArgs(validateIndexedStats(stats), stats, accountAddress)

\* ------------------------------------------------------------------------
\* src/src/services/contractBridge.ts
\* ------------------------------------------------------------------------

MAX_CONFIRMATION_ATTEMPTS == 60
CONFIRMATION_POLL_INTERVAL == 2000
TRANSACTION_TIMEOUT == 120000

\* the branch of parseContractError an error takes
ErrorClass(error) ==
  IF error.kind = "Error"
  THEN LET message == error.message
       IN  IF Includes(message, BridgeText.insufficient_fee) \/ Includes(message, BridgeText.fee)
           THEN "insufficient_fee"
           ELSE IF Includes(message, BridgeText.HostError) \/ Includes(message, BridgeText.ContractError)
           THEN "contract_revert"
           ELSE IF Includes(message, BridgeText.User_declined) \/ Includes(message, BridgeText.rejected)
           THEN "user_rejection"
           ELSE IF Includes(message, BridgeText.network) \/ Includes(message, BridgeText.timeout)
           THEN "network_timeout"
           ELSE "unknown"
  ELSE IF error.kind = "string" THEN "string"
  ELSE "unknown"

\* parseContractError, the branch already decided
translate(class, error) ==
  CASE class = "insufficient_fee" -> BridgeText.Insufficient_transaction_fee_Please
    [] class = "contract_revert"  -> BridgeText.Contract_error \o error.message
    [] class = "user_rejection"   -> BridgeText.Transaction_was_rejected_by_user
    [] class = "network_timeout"  ->
         BridgeText.Network_error_Please_check_your_conn
    [] class = "string"           -> error.message
    [] OTHER -> IF error.kind = "Error" THEN error.message
                ELSE BridgeText.Unknown_error_occurred_during_transa

parseContractError(error) == translate(ErrorClass(error), error)

\* data passed along with a state notification
NoData == [none |-> TRUE]
ErrorData(msg) == [error |-> msg]

\* emitState without the try/catch effect: once the observer has thrown it is not called
\* again
emitStateUntilThrow(log, observer, state, data) ==
  IF observer = "none" \/ (observer = "throwing" /\ log # <<>>) THEN log
  ELSE Append(log, [state |-> state, data |-> data])

\* emitState: the observer, if any, is called; what it throws is caught and logged
emitState(log, observer, state, data) ==
  IF observer = "none" THEN log ELSE Append(log, [state |-> state, data |-> data])

\* the Error objects the lifecycle creates itself
ConfirmationTimeoutError == JsError(BridgeText.Transaction_confirmation_timeout)
NotConfirmedError ==
  JsError(BridgeText.Transaction_not_confirmed_after
            \o Decimal(<<MAX_CONFIRMATION_ATTEMPTS>>) \o BridgeText.attempts)
FailedOnNetworkMessage == BridgeText.Transaction_failed_on_network

\* ------------------------------------------------------------------------
\* Bounds and inputs
\* ------------------------------------------------------------------------

\* the elapsed time is tracked up to MaxClock ms (beyond the timeout it saturates)
MaxClock == 124000
\* a duration longer than the whole transaction timeout (a slow wallet or network)
SlowStep == 122000
\* highest ledger sequence number a lookup reports
MaxLedger == 2
\* status lookups that throw within one invocation
MaxLookupErrors == 2

\* an awaited call answers at once, or takes longer than the whole timeout (ms)
StepDelays == {0, SlowStep}

\* the small non-negative integer n as a number
SmallInt(n) == JsNumber(FALSE, IF n = 0 THEN <<>> ELSE <<n>>, FALSE)

AccountAddresses ==
  {JsString(ValidAccountKey), JsString(SampleText.invalid_address), JsString(BadChecksumAccountKey)}

StatsInputs ==
  { StatsObject(SmallInt(45000), JsString(SampleText.XLM), SmallInt(120), JsString(SampleText.yearly)),
    StatsObject(SmallInt(0), JsString(SampleText.XLM), SmallInt(0), Undefined),
    \* totalVolume -1
    StatsObject(JsNumber(TRUE, <<1>>, FALSE), JsString(SampleText.XLM), SmallInt(120), Undefined),
    \* blank mostActiveAsset
    StatsObject(SmallInt(45000), JsString(SampleText.sp_sp), SmallInt(120), Undefined),
    \* contractCalls 1.5
    StatsObject(SmallInt(45000), JsString(SampleText.XLM), JsNumber(FALSE, <<1>>, TRUE), Undefined),
    \* contractCalls 2^32: passes validation, fails the u32 conversion
    StatsObject(SmallInt(45000), JsString(SampleText.XLM), JsNumber(FALSE, <<1, 0, 0>>, FALSE),
                JsString(SampleText.yearly)),
    \* totalVolume NaN and a numeric timeframe
    StatsObject(JsNaN, JsString(SampleText.XLM), SmallInt(120), SmallInt(7)),
    JsNull }

ValidNetworks == {Mainnet, Testnet}
NetworkInputs == ValidNetworks \cup {SampleText.devnet}

ObserverInputs == {"none", "listening", "throwing"}

\* NEXT_PUBLIC_CONTRACT_ADDRESS_MAINNET, _TESTNET and the legacy NEXT_PUBLIC_CONTRACT_ADDRESS
EnvInputs ==
  { [MAINNET |-> <<>>, TESTNET |-> <<>>, LEGACY |-> <<>>],
    [MAINNET |-> ValidContractKey, TESTNET |-> BadChecksumContractKey, LEGACY |-> <<>>],
    [MAINNET |-> <<>>, TESTNET |-> SampleText.not_a_contract, LEGACY |-> ValidContractKey],
    [MAINNET |-> ValidAccountKey, TESTNET |-> ValidContractKey,
     LEGACY |-> PLACEHOLDER_ADDRESS] }

\* the environments of the cache: those above, and one with a contract deployed on both
\* networks
CacheEnvInputs ==
  EnvInputs \cup {[MAINNET |-> ValidContractKey, TESTNET |-> SecondContractKey,
                   LEGACY |-> <<>>]}

OptionsInputs ==
  [accountAddress : AccountAddresses, stats : StatsInputs,
   network : NetworkInputs, observer : ObserverInputs]

\* answers of server.getAccount
AccountResponses ==
  { Return([sequence |-> "0"]),
    Throw(JsError(SampleText.Not_Found)),
    Throw(JsError(SampleText.Request_failed_with_status_code_500)),
    Throw(StringError(SampleText.socket_hang_up)) }

\* answers of server.simulateTransaction
SimulationResponses ==
  { Return([hasError |-> FALSE, error |-> <<>>, errorResult |-> FALSE]),
    Return([hasError |-> TRUE, error |-> SampleText.HostError_Error_Contract_1,
            errorResult |-> FALSE]),
    Return([hasError |-> TRUE, error |-> <<>>, errorResult |-> FALSE]),
    Return([hasError |-> FALSE, error |-> <<>>, errorResult |-> TRUE]),
    Throw(JsError(SampleText.network_request_failed)) }

\* a signed envelope TransactionEnvelope.fromXDR can read, and one it cannot
ValidXdr == SampleText.AAAAAgAAAAA
GarbageXdr == SampleText.not_xdr
NoError == [kind |-> "none", message |-> <<>>]

\* answers of the wallet's signTransaction
SignResponses ==
  { Return([error |-> NoError, signedTxXdr |-> ValidXdr]),
    Return([error |-> NoError, signedTxXdr |-> <<>>]),
    Return([error |-> NoError, signedTxXdr |-> GarbageXdr]),
    Return([error |-> StringError(SampleText.User_declined_access), signedTxXdr |-> <<>>]),
    Return([error |-> ObjectError, signedTxXdr |-> <<>>]),
    Return([error |-> StringError(SampleText.User_declined_HostError_in_preview),
            signedTxXdr |-> <<>>]),
    Throw(JsError(SampleText.User_declined_to_pay_the_fee)),
    Throw(JsError(SampleText.Freighter_is_not_connected)) }

Hashes == {SampleText.a1b2, SampleText.c3d4}

\* answers of server.sendTransaction
SubmitResponses ==
  { Return([hash |-> h, errorResult |-> FALSE]) : h \in Hashes \cup {<<>>} }
    \cup { Return([hash |-> SampleText.a1b2, errorResult |-> TRUE]),
           Throw(JsError(SampleText.insufficient_fee)) }

\* answers of server.getTransaction
LookupResponses ==
  { Return([status |-> "SUCCESS", ledger |-> l]) : l \in 0..MaxLedger }
    \cup { Return([status |-> "SUCCESS"]),
           Return([status |-> "FAILED"]),
           Return([status |-> "NOT_FOUND"]),
           Throw(JsError(SampleText.fetch_failed)),
           Throw(JsError(SampleText.Transaction_failed_to_load)) }

NoResponse == [none |-> TRUE]
NoCalls ==
  [getAccount |-> 0, simulateTransaction |-> 0, signTransaction |-> 0,
   sendTransaction |-> 0, getTransaction |-> 0]

\* ------------------------------------------------------------------------
\* State
\* ------------------------------------------------------------------------

\* the callers of ConcurrencyManager.run
NumCallers == 6
Callers == 1..NumCallers

VARIABLES
  pc,              \* where mintWrap is suspended: the await it waits on, or how it settled
  options,         \* the MintWrapOptions of the invocation
  env,             \* the configured contract addresses (process.env)
  notified,        \* the (state, data) pairs the observer has been called with, in order
  calls,           \* how many calls each collaborator operation has received
  attempts,        \* the local counter of waitForConfirmation
  clock,           \* Date.now() - startTime
  transactionHash, \* the local of mintWrap
  result,          \* the settlement of the promise mintWrap returned
  caught,          \* history: the error that reached the catch block of mintWrap
  responses,       \* history: the last answer of each collaborator operation
  transient,       \* history: how many status lookups threw and were retried
  contractInstanceCache, \* app/utils/contractBridge.ts: network -> Contract
  store,           \* the wrap store: network, currentContractAddress, contractAddresses
  lastCall,        \* history: the last operation on the cache or the store, and its outcome
  call,            \* the arguments a builder or converter function is applied to
  returned,        \* what the functions applied to `call` have returned
  active,          \* ConcurrencyManager: the calls holding a slot
  queue,           \* ConcurrencyManager: the callers waiting for a slot, oldest first
  task,            \* where each caller of ConcurrencyManager.run is suspended
  released,        \* history: how the wrapped function of the last released slot ended
  requeued,        \* history: a resolved waiter found every slot taken and waits again
  kit              \* app/utils/walletKit.ts: the invocation of its mintWrap

\* the variables of one mintWrap invocation
lifecycleVars ==
  <<pc, options, notified, calls, attempts, clock, transactionHash, result,
    caught, responses, transient>>
\* the module state of the contract cache and the store
cacheVars == <<contractInstanceCache, store, lastCall>>
\* a function application
callVars == <<call, returned>>

\* the ConcurrencyManager instance and its callers
poolVars == <<active, queue, task, released, requeued>>

vars == <<lifecycleVars, env, cacheVars, callVars, poolVars, kit>>

\* no mintWrap invocation has begun
LifecycleInit ==
  /\ pc = "start"
  /\ notified = <<>>
  /\ calls = NoCalls
  /\ attempts = 0
  /\ clock = 0
  /\ transactionHash = <<>>
  /\ result = [kind |-> "pending"]
  /\ caught = NoError
  /\ responses = [account |-> NoResponse, simulation |-> NoResponse,
                  signature |-> NoResponse, submission |-> NoResponse,
                  lookup |-> NoResponse]
  /\ transient = 0

\* no mintWrap invocation takes part
NoOptions == [none |-> TRUE]

NoCall == [fn |-> "none"]
\* const contractInstanceCache = {}
NoInstances == [n \in {} |-> <<>>]

\* the modules as loaded: an empty cache, the store on its defaults
CacheInit ==
  /\ contractInstanceCache = NoInstances
  /\ store = [network |-> DEFAULT_NETWORK, currentContractAddress |-> <<>>,
              contractAddresses |-> <<>>]
  /\ lastCall = NoCall

\* no function has returned
NoResults == [f \in {} |-> <<>>]

\* no function is being applied
CallInit ==
  /\ call = [fn |-> "none"]
  /\ returned = NoResults

\* new ConcurrencyManager(), nobody has called run
PoolInit ==
  /\ active = 0
  /\ queue = <<>>
  /\ task = [c \in Callers |-> "idle"]
  /\ released = "none"
  /\ requeued = FALSE

\* mintWrap of walletKit has not been called
KitInit == kit = [pc |-> "idle"]

Init ==
  /\ LifecycleInit
  /\ options \in OptionsInputs
  /\ env \in EnvInputs
  /\ CacheInit
  /\ PoolInit
  /\ KitInit
  /\ CallInit

\* time passes while a call is awaited
Elapse(d) == IF clock + d > MaxClock THEN MaxClock ELSE clock + d

\* ------------------------------------------------------------------------
\* The steps of the lifecycle, as the code runs them around each await.
\* A step yields [log, threw, error, value]: the notifications made so far,
\* and what the step throws or returns.
\* ------------------------------------------------------------------------

\* buildMintTransaction, step 1, once getContractAddress has answered
refusePlaceholder(contractAddress, network) ==
  IF contractAddress.threw THEN contractAddress
  ELSE IF contractAddress.value = <<>> \/ StartsWith(contractAddress.value, BridgeText.CAAAAAAAA)
  THEN Throw(JsError(BridgeText.Invalid_contract_address_for \o network
         \o BridgeText.Please_configure_NEXT_PUBLIC_CONTRAC \o toUpperCase(network)
         \o BridgeText.environment_variable))
  ELSE contractAddress

\* buildMintTransaction, step 1: the contract address of the network, placeholder refused
contractAddressStep(e, network) ==
  refusePlaceholder(getContractAddress(e, network), network)

\* new Contract(address) of stellar-sdk: decodes the address as a contract strkey
newContract(address) ==
  IF StrKey_isValidContract(address) THEN Return([contractId |-> address])
  ELSE Throw(JsError(LibraryText.Invalid_contract_ID \o address))

\* error instanceof Error ? error.message : String(error)
errorText(error) ==
  IF error.kind = "object" THEN JsText.object_Object ELSE error.message

\* buildMintTransaction, step 3: the catch block around server.getAccount
accountLoadError(o, errorMessage) ==
  IF Includes(errorMessage, BridgeText.Not_Found) \/ Includes(errorMessage, BridgeText.n4_0_4)
  THEN Throw(JsError(BridgeText.Account \o ToText(o.accountAddress) \o BridgeText.not_found_on
         \o o.network \o BridgeText.Please_ensure_the_account_exists_and
         \o o.network \o BridgeText.network_2))
  ELSE Throw(JsError(BridgeText.Failed_to_load_account \o errorMessage
         \o BridgeText.Please_check_that_the_account_addres
         \o o.network \o BridgeText.dot))

\* buildMintTransaction, steps 5 to 7: the contract instance, the call, the transaction
buildTransaction(contract, argsResult) ==
  IF contract.threw THEN contract
  ELSE Return([operation |-> BridgeText.mint_wrap, args |-> argsResult.data.args,
               contract |-> contract.value])

\* buildMintTransaction, step 4 onwards, given the result of buildContractArgs
invokeContract(argsResult, contractAddress) ==
  IF ~argsResult.success
  THEN Throw(JsError(BridgeText.Failed_to_build_contract_arguments \o Join(argsResult.errors)))
  ELSE buildTransaction(newContract(contractAddress), argsResult)

\* buildMintTransaction, steps 3 to 7, once server.getAccount has answered
buildMintTransaction(e, o, accountResponse) ==
  IF accountResponse.threw
  THEN accountLoadError(o, errorText(accountResponse.error))
  ELSE invokeContract(buildContractArgs(o.stats, o.accountAddress),
                      contractAddressStep(e, o.network).value)

\* a call outcome as a step that notified nothing
asStep(log, outcome) ==
  [log |-> log, threw |-> outcome.threw,
   error |-> IF outcome.threw THEN outcome.error ELSE NoError]

\* simulateTransaction, before the await: `simulating`
beginSimulate(step, observer) ==
  IF step.threw THEN step
  ELSE [log |-> emitState(step.log, observer, "simulating", NoData), threw |-> FALSE]

\* the catch block of simulateTransaction, the message already translated
simulateRethrow(log, observer, errorMessage) ==
  [log   |-> emitState(log, observer, "failed", ErrorData(errorMessage)),
   threw |-> TRUE,
   error |-> JsError(BridgeText.Transaction_simulation_error \o errorMessage)]

simulateCatch(log, observer, error) ==
  simulateRethrow(log, observer, parseContractError(error))

\* simulateTransaction: the simulation carries an error, its message already translated
simulationFailed(log, observer, errorMessage) ==
  simulateCatch(emitState(log, observer, "failed", ErrorData(errorMessage)), observer,
                JsError(BridgeText.Transaction_simulation_failed \o errorMessage))

\* simulation.errorResult || simulation.error, else the simulation object itself
simulationError(simulation) ==
  IF simulation.errorResult THEN ObjectError
  ELSE IF simulation.error # <<>> THEN StringError(simulation.error)
  ELSE ObjectError

\* simulateTransaction overlooking simulation.errorResult
simulateTransactionIgnoringRevert(log, observer, response) ==
  IF response.threw THEN simulateCatch(log, observer, response.error)
  ELSE IF response.value.hasError
  THEN simulationFailed(log, observer, parseContractError(simulationError(response.value)))
  ELSE [log |-> log, threw |-> FALSE]

\* simulateTransaction overlooking simulation.error
simulateTransactionIgnoringError(log, observer, response) ==
  IF response.threw THEN simulateCatch(log, observer, response.error)
  ELSE IF response.value.errorResult
  THEN simulationFailed(log, observer, parseContractError(simulationError(response.value)))
  ELSE [log |-> log, threw |-> FALSE]

\* simulateTransaction after the await
simulateTransaction(log, observer, response) ==
  IF response.threw THEN simulateCatch(log, observer, response.error)
  ELSE IF response.value.hasError \/ response.value.errorResult
  THEN simulationFailed(log, observer, parseContractError(simulationError(response.value)))
  ELSE [log |-> log, threw |-> FALSE]

\* signTransactionWithFreighter, before the await: `signed`
beginSign(step, observer) ==
  IF step.threw THEN step
  ELSE [log |-> emitState(step.log, observer, "signed", NoData), threw |-> FALSE]

\* the catch block of signTransactionWithFreighter
signCatch(log, observer, error) ==
  [log   |-> emitState(log, observer, "failed", ErrorData(parseContractError(error))),
   threw |-> TRUE,
   error |-> error]

\* signTransactionWithFreighter: the wallet answered with an error, its message translated
signingFailed(log, observer, errorMessage) ==
  signCatch(emitState(log, observer, "failed", ErrorData(errorMessage)), observer,
            JsError(BridgeText.Signing_failed \o errorMessage))

\* signTransactionWithFreighter after the await
signTransactionWithFreighter(log, observer, response) ==
  IF response.threw THEN signCatch(log, observer, response.error)
  ELSE IF response.value.error.kind # "none"
  THEN signingFailed(log, observer, parseContractError(response.value.error))
  ELSE IF response.value.signedTxXdr = <<>>
  THEN signCatch(log, observer, JsError(BridgeText.Freighter_returned_empty_signed_tran))
  ELSE [log |-> log, threw |-> FALSE, value |-> response.value.signedTxXdr]

\* xdr.TransactionEnvelope.fromXDR(signedXdr, "base64") of stellar-sdk
fromXDR(signedXdr) ==
  IF signedXdr = ValidXdr THEN Return(signedXdr)
  ELSE Throw(JsError(LibraryText.XDR_Read_Error_attempt_to_read_outsi))

\* the catch block of submitTransaction
submitCatch(log, observer, error) ==
  [log   |-> emitState(log, observer, "failed", ErrorData(parseContractError(error))),
   threw |-> TRUE,
   error |-> error]

\* submitTransaction, the envelope parsed or not
parseEnvelope(log, observer, envelope) ==
  IF envelope.threw THEN submitCatch(log, observer, envelope.error)
  ELSE [log |-> log, threw |-> FALSE]

\* submitTransaction notifying `simulating` where it notifies `submitted`
beginSubmitBackward(step, observer) ==
  IF step.threw THEN step
  ELSE parseEnvelope(emitState(step.log, observer, "simulating", NoData), observer,
                     fromXDR(step.value))

\* submitTransaction, before the await: `submitted`, then the signed envelope is parsed
beginSubmit(step, observer) ==
  IF step.threw THEN step
  ELSE parseEnvelope(emitState(step.log, observer, "submitted", NoData), observer,
                     fromXDR(step.value))

\* submitTransaction: the answer carries an errorResult, its message already translated
submissionFailed(log, observer, errorMessage) ==
  submitCatch(emitState(log, observer, "failed", ErrorData(errorMessage)), observer,
              JsError(BridgeText.Transaction_submission_failed \o errorMessage))

\* submitTransaction after the await
submitTransaction(log, observer, response) ==
  IF response.threw THEN submitCatch(log, observer, response.error)
  ELSE IF response.value.errorResult
  THEN submissionFailed(log, observer, parseContractError(ObjectError))
  ELSE IF response.value.hash = <<>>
  THEN submitCatch(log, observer, JsError(BridgeText.Transaction_submitted_but_no_hash_re))
  ELSE [log |-> log, threw |-> FALSE, value |-> response.value.hash]

\* response.ledger || 0
ledgerOf(response) == IF "ledger" \in DOMAIN response THEN response.ledger ELSE 0

\* the catch block of mintWrap rejecting without notifying the observer
RejectWithSilently(log, error, errorMessage) ==
  /\ notified' = log
  /\ caught' = error
  /\ result' = [kind |-> "rejected",
                error |-> JsError(BridgeText.Minting_failed \o errorMessage)]
  /\ pc' = "rejected"

\* the catch block of mintWrap, the message already translated
RejectWith(log, error, errorMessage) ==
  /\ notified' = emitState(log, options.observer, "failed", ErrorData(errorMessage))
  /\ caught' = error
  /\ result' = [kind |-> "rejected",
                error |-> JsError(BridgeText.Minting_failed \o errorMessage)]
  /\ pc' = "rejected"

\* the catch block of mintWrap: notify `failed`, reject with the translated message
Rejected(log, error) == RejectWith(log, error, parseContractError(error))

\* a collaborator operation is called and mintWrap suspends on it
Issue(log, operation, at) ==
  /\ notified' = log
  /\ calls' = [calls EXCEPT ![operation] = @ + 1]
  /\ pc' = at
  /\ UNCHANGED <<result, caught>>

\* a step threw, and mintWrap rejects; or it is followed by the call of an operation
Proceed(step, operation, at) ==
  IF step.threw
  THEN Rejected(step.log, step.error) /\ UNCHANGED calls
  ELSE Issue(step.log, operation, at)

\* waitForConfirmation allowing one attempt more than the maximum
waitForConfirmationTopOneMore(log, att, now) ==
  IF att <= MAX_CONFIRMATION_ATTEMPTS
  THEN IF now > TRANSACTION_TIMEOUT
       THEN Rejected(log, ConfirmationTimeoutError) /\ UNCHANGED calls
       ELSE Issue(log, "getTransaction", "lookup")
  ELSE Rejected(log, NotConfirmedError) /\ UNCHANGED calls

\* waitForConfirmation giving up one attempt early
waitForConfirmationTopOneShort(log, att, now) ==
  IF att < MAX_CONFIRMATION_ATTEMPTS - 1
  THEN IF now > TRANSACTION_TIMEOUT
       THEN Rejected(log, ConfirmationTimeoutError) /\ UNCHANGED calls
       ELSE Issue(log, "getTransaction", "lookup")
  ELSE Rejected(log, NotConfirmedError) /\ UNCHANGED calls

\* waitForConfirmation checking the elapsed time only from the second iteration on
waitForConfirmationTopLate(log, att, now) ==
  IF att < MAX_CONFIRMATION_ATTEMPTS
  THEN IF now > TRANSACTION_TIMEOUT /\ att > 0
       THEN Rejected(log, ConfirmationTimeoutError) /\ UNCHANGED calls
       ELSE Issue(log, "getTransaction", "lookup")
  ELSE Rejected(log, NotConfirmedError) /\ UNCHANGED calls

\* the top of the loop of waitForConfirmation
waitForConfirmationTop(log, att, now) ==
  IF att < MAX_CONFIRMATION_ATTEMPTS
  THEN IF now > TRANSACTION_TIMEOUT
       THEN Rejected(log, ConfirmationTimeoutError) /\ UNCHANGED calls
       ELSE Issue(log, "getTransaction", "lookup")
  ELSE Rejected(log, NotConfirmedError) /\ UNCHANGED calls

\* mintWrap after submitTransaction: the hash is kept and waitForConfirmation starts
startConfirmation(step, now) ==
  IF step.threw
  THEN /\ Rejected(step.log, step.error)
       /\ UNCHANGED <<calls, transactionHash>>
  ELSE /\ transactionHash' = step.value
       /\ waitForConfirmationTop(step.log, 0, now)

\* waitForConfirmation: the lookup answered SUCCESS
confirmed(ledger) ==
  /\ notified' = emitState(notified, options.observer, "confirmed",
                           [ledger |-> ledger, transactionHash |-> transactionHash])
  /\ result' = [kind |-> "resolved", transactionHash |-> transactionHash,
                ledger |-> ledger, state |-> "confirmed"]
  /\ pc' = "resolved"
  /\ UNCHANGED <<calls, attempts, transient, caught>>

\* what server.getAccount can answer: no account is loaded for a malformed address
getAccount(address) ==
  IF isValidStellarAddress(address) THEN AccountResponses
  ELSE {response \in AccountResponses : response.threw}

\* ------------------------------------------------------------------------
\* Actions
\* ------------------------------------------------------------------------

\* mintWrap is called: `pending`, the start time, the contract address, server.getAccount
MintWrap ==
  /\ pc = "start"
  /\ clock' = 0
  /\ \E contractAddress \in {contractAddressStep(env, options.network)} :
       Proceed(asStep(emitState(<<>>, options.observer, "pending", NoData),
                      contractAddress),
               "getAccount", "getAccount")
  /\ UNCHANGED <<cacheVars, callVars, poolVars, kit, options, env, attempts, transactionHash, responses, transient>>

\* server.getAccount answers: the transaction is built, `simulating`, simulateTransaction
AccountReturns ==
  /\ pc = "getAccount"
  /\ \E response \in getAccount(options.accountAddress.s), d \in StepDelays :
       /\ clock' = Elapse(d)
       /\ responses' = [responses EXCEPT !.account = response]
       /\ \E built \in {buildMintTransaction(env, options, response)} :
            Proceed(beginSimulate(asStep(notified, built), options.observer),
                    "simulateTransaction", "simulate")
  /\ UNCHANGED <<cacheVars, callVars, poolVars, kit, options, env, attempts, transactionHash, transient>>

\* server.simulateTransaction answers: `signed`, the wallet is asked to sign
SimulationReturns ==
  /\ pc = "simulate"
  /\ \E response \in SimulationResponses, d \in StepDelays :
       /\ clock' = Elapse(d)
       /\ responses' = [responses EXCEPT !.simulation = response]
       /\ \E simulated \in {simulateTransaction(notified, options.observer, response)} :
            Proceed(beginSign(simulated, options.observer), "signTransaction", "sign")
  /\ UNCHANGED <<cacheVars, callVars, poolVars, kit, options, env, attempts, transactionHash, transient>>

\* the wallet answers: `submitted`, the envelope is parsed, server.sendTransaction
SignatureReturns ==
  /\ pc = "sign"
  /\ \E response \in SignResponses, d \in StepDelays :
       /\ clock' = Elapse(d)
       /\ responses' = [responses EXCEPT !.signature = response]
       /\ \E signed \in {signTransactionWithFreighter(notified, options.observer,
                                                        response)} :
            \E parsed \in {beginSubmit(signed, options.observer)} :
              Proceed(parsed, "sendTransaction", "submit")
  /\ UNCHANGED <<cacheVars, callVars, poolVars, kit, options, env, attempts, transactionHash, transient>>

\* server.sendTransaction answers: the hash is kept, waitForConfirmation starts
SubmissionReturns ==
  /\ pc = "submit"
  /\ \E response \in SubmitResponses, d \in StepDelays :
       /\ clock' = Elapse(d)
       /\ responses' = [responses EXCEPT !.submission = response]
       /\ \E submitted \in {submitTransaction(notified, options.observer, response)} :
            startConfirmation(submitted, clock')
  /\ attempts' = 0
  /\ UNCHANGED <<cacheVars, callVars, poolVars, kit, options, env, transient>>

\* a lookup answer handled with FAILED taken for one more pending status
LookupReturnsRetryingFailed ==
  /\ pc = "lookup"
  /\ \E response \in LookupResponses, d \in StepDelays :
       /\ clock' = Elapse(d)
       /\ responses' = [responses EXCEPT !.lookup = response]
       /\ IF response.threw
          THEN IF response.error.kind = "Error"
                    /\ Includes(response.error.message, BridgeText.Transaction_failed)
               THEN /\ Rejected(notified, response.error)
                    /\ UNCHANGED <<calls, attempts, transient>>
               ELSE /\ transient < MaxLookupErrors
                    /\ transient' = transient + 1
                    /\ attempts' = attempts + 1
                    /\ pc' = "sleep"
                    /\ UNCHANGED <<notified, calls, result, caught>>
          ELSE IF response.value.status = "SUCCESS"
          THEN confirmed(ledgerOf(response.value))
          ELSE /\ attempts' = attempts + 1
               /\ pc' = "sleep"
               /\ UNCHANGED <<notified, calls, result, caught, transient>>
  /\ UNCHANGED <<cacheVars, callVars, poolVars, kit, options, env, transactionHash>>

\* server.getTransaction answers inside the loop of waitForConfirmation
LookupReturns ==
  /\ pc = "lookup"
  /\ \E response \in LookupResponses, d \in StepDelays :
       /\ clock' = Elapse(d)
       /\ responses' = [responses EXCEPT !.lookup = response]
       /\ IF response.threw
          THEN IF response.error.kind = "Error"
                    /\ Includes(response.error.message, BridgeText.Transaction_failed)
               THEN /\ Rejected(notified, response.error)
                    /\ UNCHANGED <<calls, attempts, transient>>
               ELSE /\ transient < MaxLookupErrors
                    /\ transient' = transient + 1
                    /\ attempts' = attempts + 1
                    /\ pc' = "sleep"
                    /\ UNCHANGED <<notified, calls, result, caught>>
          ELSE IF response.value.status = "SUCCESS"
          THEN confirmed(ledgerOf(response.value))
          ELSE IF response.value.status = "FAILED"
          THEN /\ Rejected(emitState(notified, options.observer, "failed",
                                     ErrorData(FailedOnNetworkMessage)),
                           JsError(FailedOnNetworkMessage))
               /\ UNCHANGED <<calls, attempts, transient>>
          ELSE /\ attempts' = attempts + 1
               /\ pc' = "sleep"
               /\ UNCHANGED <<notified, calls, result, caught, transient>>
  /\ UNCHANGED <<cacheVars, callVars, poolVars, kit, options, env, transactionHash>>

\* a retry that submits the signed transaction again instead of looking it up
TimerFiresResubmitting ==
  /\ pc = "sleep"
  /\ \E d \in StepDelays :
       /\ clock' = Elapse(CONFIRMATION_POLL_INTERVAL + d)
       /\ Issue(notified, "sendTransaction", "submit")
  /\ UNCHANGED <<cacheVars, callVars, poolVars, kit, options, env, attempts, transactionHash, responses, transient>>

\* the poll interval has passed: back to the top of the loop
TimerFires ==
  /\ pc = "sleep"
  /\ \E d \in StepDelays :
       /\ clock' = Elapse(CONFIRMATION_POLL_INTERVAL + d)
       /\ waitForConfirmationTop(notified, attempts, clock')
  /\ UNCHANGED <<cacheVars, callVars, poolVars, kit, options, env, attempts, transactionHash, responses, transient>>

Next ==
  \/ MintWrap
  \/ AccountReturns
  \/ SimulationReturns
  \/ SignatureReturns
  \/ SubmissionReturns
  \/ LookupReturns
  \/ TimerFires

Spec == Init /\ [][Next]_vars

\* every call that was issued returns, and every timer that was set fires
LiveSpec == Init /\ [][Next]_vars /\ WF_vars(Next)


\* ------------------------------------------------------------------------
\* src/app/utils/contractBridge.ts and src/app/store/wrapStore.ts
\* ------------------------------------------------------------------------

\* the error classes of app/utils/contractErrors
ContractConfigurationError == [kind |-> "ContractConfigurationError"]
InvalidContractAddressError == [kind |-> "InvalidContractAddressError"]
ContractNotFoundError == [kind |-> "ContractNotFoundError"]

\* contractInstanceCache[network] = contract
Put(cache, network, contract) ==
  [n \in DOMAIN cache \cup {network} |-> IF n = network THEN contract ELSE cache[n]]

\* delete contractInstanceCache[key], for every key of keys
Without(cache, keys) == [n \in DOMAIN cache \ keys |-> cache[n]]

\* the result of getContractInstance: the cache it leaves, what it returns or throws,
\* and whether the instance came from the cache
Served(cache, outcome, cached) == [cache |-> cache, outcome |-> outcome, cached |-> cached]

\* the try block with the cache entry written before the constructor has returned
buildAndCacheEarly(cache, contract, network) ==
  IF contract.threw
  THEN Served(Put(cache, network, <<>>), Throw(ContractNotFoundError), FALSE)
  ELSE Served(Put(cache, network, contract.value), contract, FALSE)

\* getContractInstance, the try block: the instance is built and cached
buildAndCache(cache, contract, network) ==
  IF contract.threw THEN Served(cache, Throw(ContractNotFoundError), FALSE)
  ELSE Served(Put(cache, network, contract.value), contract, FALSE)

\* getContractInstance after a cache miss, the configured address already read
loadContract(cache, configured, network) ==
  IF configured.threw THEN Served(cache, configured, FALSE)
  ELSE IF ~isValidContractAddress(configured.value)
  THEN Served(cache, Throw(InvalidContractAddressError), FALSE)
  ELSE buildAndCache(cache, newContract(configured.value), network)

getContractInstance(cache, e, network) ==
  IF ~isValidNetwork(network)
  THEN Served(cache, Throw(ContractConfigurationError), FALSE)
  ELSE IF network \in DOMAIN cache
  THEN Served(cache, Return(cache[network]), TRUE)
  ELSE loadContract(cache, getContractAddress(e, network), network)

\* clearContractCache with one network left in the cache
clearContractCacheButTestnet(cache) == Without(cache, DOMAIN cache \ {Testnet})

clearContractCache(cache) == Without(cache, DOMAIN cache)

hasCachedContract(cache, network) ==
  isValidNetwork(network) /\ network \in DOMAIN cache

\* syncContractState once getContractAddress(network) has returned or thrown
syncedState(config, current) ==
  IF current.threw
  THEN [currentContractAddress |-> <<>>, contractAddresses |-> <<>>]
  ELSE [currentContractAddress |-> current.value,
        contractAddresses |-> [mainnet |-> config.mainnet, testnet |-> config.testnet]]

syncContractState(e, network) ==
  syncedState(getContractConfig(e), getContractAddress(e, network))

\* set({ network, ...syncContractState(network) })
merged(network, synced) ==
  [network |-> network, currentContractAddress |-> synced.currentContractAddress,
   contractAddresses |-> synced.contractAddresses]

setNetwork(e, network) == merged(network, syncContractState(e, network))

\* a caller asks for the contract of a network
GetContractInstance ==
  /\ \E network \in NetworkInputs :
       \E served \in {getContractInstance(contractInstanceCache, env, network)} :
         /\ contractInstanceCache' = served.cache
         /\ lastCall' = [fn |-> "getContractInstance", network |-> network,
                         outcome |-> served.outcome, cached |-> served.cached]
  /\ UNCHANGED <<lifecycleVars, callVars, poolVars, kit, env, store>>

ClearContractCache ==
  /\ contractInstanceCache' = clearContractCache(contractInstanceCache)
  /\ lastCall' = [fn |-> "clearContractCache"]
  /\ UNCHANGED <<lifecycleVars, callVars, poolVars, kit, env, store>>

\* the user picks a network in the UI
SetNetwork ==
  /\ \E network \in ValidNetworks :
       /\ store' = setNetwork(env, network)
       /\ lastCall' = [fn |-> "setNetwork", network |-> network, from |-> store.network]
  /\ UNCHANGED <<lifecycleVars, callVars, poolVars, kit, env, contractInstanceCache>>

CacheStart ==
  /\ LifecycleInit
  /\ options = NoOptions
  /\ env \in CacheEnvInputs
  /\ CacheInit
  /\ PoolInit
  /\ KitInit
  /\ CallInit

CacheNext ==
  \/ GetContractInstance
  \/ ClearContractCache
  \/ SetNetwork

CacheSpec == CacheStart /\ [][CacheNext]_vars

\* ------------------------------------------------------------------------
\* src/src/utils/contractArgsBuilder.ts: the stats as one map argument
\* ------------------------------------------------------------------------

\* one entry of statsForMap with its type hint
MapEntry(key, value, type) == [key |-> key, value |-> value, type |-> type]

\* if (stats.timeframe) statsForMap.timeframe = stats.timeframe
truthyString(v) == v.t = "string" /\ v.s # <<>>

\* Object.entries(statsForMap), each with typeHints[key]
statsForMap(stats) ==
  << MapEntry(BuilderText.total_volume, stats.totalVolume, "u64"),
     MapEntry(BuilderText.most_active_asset, stats.mostActiveAsset, "string"),
     MapEntry(BuilderText.contract_calls, stats.contractCalls, "u32") >>
  \o (IF truthyString(stats.timeframe)
      THEN <<MapEntry(BuilderText.timeframe, stats.timeframe, "string")>>
      ELSE <<>>)

\* objectToScValMap, the loop from entry i on, mapEntries holding the entries converted
\* so far (the four keys are valid symbols)
RECURSIVE convertEntries(_, _, _)
pushEntry(entries, i, mapEntries, valResult) ==
  IF isConversionError(valResult)
  THEN Failure(ConverterText.Failed_to_convert_map_value_for_key \o entries[i].key
                 \o ConverterText._colon_sp \o valResult.error)
  ELSE convertEntries(entries, i + 1,
                      Append(mapEntries, [key |-> [type |-> "scvSymbol",
                                                   value |-> entries[i].key],
                                          val |-> valResult.value]))
convertEntries(entries, i, mapEntries) ==
  IF i > Len(entries) THEN Success([type |-> "scvMap", value |-> mapEntries])
  ELSE pushEntry(entries, i, mapEntries, toScVal(entries[i].value, entries[i].type))

objectToScValMap(entries) == convertEntries(entries, 1, <<>>)

\* buildContractArgsAsMap, steps 1 and 2 and the result, given the two conversion results
collectMapArgs(addr, map, accountAddress) ==
  IF Len(unwrapError(addr, BuilderText.accountAddress) \o unwrapError(map, BuilderText.statsMap)) > 0
  THEN [success |-> FALSE,
        errors |-> unwrapError(addr, BuilderText.accountAddress)
                     \o unwrapError(map, BuilderText.statsMap)]
  ELSE [success |-> TRUE,
        data |->
          [args |-> unwrapValue(addr) \o unwrapValue(map),
           argDescriptions |->
                describe(addr, BuilderText.accountAddress_2 \o ToText(accountAddress))
             \o describe(map,
                  BuilderText.statsMap_total_volume_most_active_as)]]

\* buildContractArgsAsMap once the stats are validated
convertMapArgs(validationErrors, stats, accountAddress) ==
  IF Len(validationErrors) > 0
  THEN [success |-> FALSE, errors |-> validationErrors]
  ELSE collectMapArgs(addressToScVal(accountAddress),
                      objectToScValMap(statsForMap(stats)), accountAddress)

buildContractArgsAsMap(stats, accountAddress) ==
  convertMapArgs(validateIndexedStats(stats), stats, accountAddress)

\* ------------------------------------------------------------------------
\* The builder functions applied to every combination of inputs
\* ------------------------------------------------------------------------

\* 2^64
TwoTo64 == <<1, 0, 0, 0, 0>>
\* 2^32
TwoTo32 == <<1, 0, 0>>

BuilderStatsInputs ==
  { StatsObject(totalVolume, mostActiveAsset, contractCalls, timeframe) :
      totalVolume \in {SmallInt(45000), JsNumber(TRUE, <<1>>, FALSE), JsNaN,
                       JsNumber(FALSE, <<1>>, TRUE), JsNumber(FALSE, TwoTo64, FALSE)},
      mostActiveAsset \in {JsString(SampleText.XLM), JsString(SampleText.sp_sp), SmallInt(7)},
      contractCalls \in {SmallInt(120), JsNumber(FALSE, <<1>>, TRUE),
                         JsNumber(FALSE, TwoTo32, FALSE), JsNumber(TRUE, <<1>>, FALSE)},
      timeframe \in {Undefined, JsString(SampleText.yearly), SmallInt(7), JsString(<<>>)} }
    \cup {JsNull}

BuilderAddressInputs ==
  AccountAddresses \cup {JsString(ValidContractKey),
                         JsString(SampleText.sp \o ValidAccountKey \o SampleText.sp)}

BuilderStart ==
  /\ LifecycleInit
  /\ options = NoOptions
  /\ env \in {[MAINNET |-> <<>>, TESTNET |-> <<>>, LEGACY |-> <<>>]}
  /\ CacheInit
  /\ PoolInit
  /\ KitInit
  /\ call \in [stats : BuilderStatsInputs, accountAddress : BuilderAddressInputs]
  /\ returned = NoResults

BuildContractArgs ==
  /\ "buildContractArgs" \notin DOMAIN returned
  /\ returned' =
       returned @@ ("buildContractArgs" :> buildContractArgs(call.stats, call.accountAddress))
  /\ UNCHANGED <<lifecycleVars, env, cacheVars, poolVars, kit, call>>

BuildContractArgsAsMap ==
  /\ "buildContractArgsAsMap" \notin DOMAIN returned
  /\ returned' =
       returned @@ ("buildContractArgsAsMap"
                      :> buildContractArgsAsMap(call.stats, call.accountAddress))
  /\ UNCHANGED <<lifecycleVars, env, cacheVars, poolVars, kit, call>>

BuilderNext ==
  \/ BuildContractArgs
  \/ BuildContractArgsAsMap

BuilderSpec == BuilderStart /\ [][BuilderNext]_vars

\* ------------------------------------------------------------------------
\* The u32 conversion applied to numbers around the ends of the range
\* ------------------------------------------------------------------------

\* the 32 bits an xdr uint32 holds of a magnitude
Low32(mag) ==
  IF Len(mag) <= 2 THEN mag ELSE StripZeros(SubSeq(mag, Len(mag) - 1, Len(mag)))

\* ScVal.u32(): the number read back from an scvU32
u32(scval) == JsNumber(FALSE, Low32(scval.value), FALSE)

\* a === b for finite numbers (-0 === 0)
SameNumber(a, b) ==
  /\ IsFiniteNumber(a) /\ IsFiniteNumber(b)
  /\ a.mag = b.mag /\ a.frac = b.frac
  /\ (a.neg = b.neg \/ (IsZero(a) /\ IsZero(b)))

\* 0, 1, 42, 2^16-1, 2^16, 2^32-2, 2^32-1, 2^32, 2^32+1, 2^48-1
U32Magnitudes ==
  {<<>>, <<1>>, <<42>>, <<65535>>, <<1, 0>>, <<65535, 65534>>, <<65535, 65535>>,
   TwoTo32, <<1, 0, 1>>, <<65535, 65535, 65535>>}

\* those magnitudes, negated and with a half added, and values that are no finite number
U32Inputs ==
  { JsNumber(neg, mag, frac) : neg \in BOOLEAN, mag \in U32Magnitudes, frac \in BOOLEAN }
    \cup {JsNaN, JsInfinity, JsString(SampleText.n4_2), Undefined}

ConverterStart ==
  /\ LifecycleInit
  /\ options = NoOptions
  /\ env \in {[MAINNET |-> <<>>, TESTNET |-> <<>>, LEGACY |-> <<>>]}
  /\ CacheInit
  /\ PoolInit
  /\ KitInit
  /\ call \in [value : U32Inputs]
  /\ returned = NoResults

NumberToScValU32 ==
  /\ "numberToScValU32" \notin DOMAIN returned
  /\ returned' = returned @@ ("numberToScValU32" :> numberToScValU32(call.value))
  /\ UNCHANGED <<lifecycleVars, env, cacheVars, poolVars, kit, call>>

ToScValU32 ==
  /\ "toScVal" \notin DOMAIN returned
  /\ returned' = returned @@ ("toScVal" :> toScVal(call.value, "u32"))
  /\ UNCHANGED <<lifecycleVars, env, cacheVars, poolVars, kit, call>>

ConverterNext ==
  \/ NumberToScValU32
  \/ ToScValU32

ConverterSpec == ConverterStart /\ [][ConverterNext]_vars

\* ------------------------------------------------------------------------
\* src/src/utils/sorobanConverter.ts: the 64-bit signed and the 128-bit conversions
\* ------------------------------------------------------------------------

\* typeof value === "bigint" ? value : BigInt(Math.floor(value))
toBigInt(value) ==
  IF value.t = "bigint"
  THEN [threw |-> FALSE, neg |-> value.neg /\ value.mag # <<>>, mag |-> value.mag]
  ELSE FloorToBigInt(value)

\* a < b on BigInt values
BigLess(a, b) ==
  IF a.neg # b.neg THEN a.neg
  ELSE IF a.neg THEN MagLess(b.mag, a.mag)
  ELSE MagLess(a.mag, b.mag)

\* BigInt("-9223372036854775808") and BigInt("9223372036854775807")
I64_MIN == [neg |-> TRUE, mag |-> <<32768, 0, 0, 0>>]
I64_MAX == [neg |-> FALSE, mag |-> <<32767, 65535, 65535, 65535>>]

\* the RangeError of BigInt(NaN) and BigInt(Infinity)
NotAnInteger(value) ==
  LibraryText.The_number \o ToText(value)
    \o LibraryText.cannot_be_converted_to_a_BigInt_beca

\* numberToScValI64 once bigVal is computed (or BigInt has thrown)
rangeCheckI64(value, bigVal) ==
  IF bigVal.threw
  THEN Failure(ConverterText.Failed_to_convert \o ToText(value) \o ConverterText.to_ScVal_i64
                 \o NotAnInteger(value))
  ELSE IF BigLess(bigVal, I64_MIN) \/ BigLess(I64_MAX, bigVal)
  THEN Failure(ConverterText.Value \o ToText(value) \o ConverterText.is_out_of_i64_range
                 \o JsText.minus \o Decimal(I64_MIN.mag) \o JsText.comma_sp \o Decimal(I64_MAX.mag)
                 \o ConverterText.rbr)
  ELSE Success([type |-> "scvI64", value |-> [neg |-> bigVal.neg, mag |-> bigVal.mag]])

numberToScValI64(value) == rangeCheckI64(value, toBigInt(value))

\* 2^127
TwoTo127 == <<32768, 0, 0, 0, 0, 0, 0, 0>>

\* the low 128 bits of a magnitude
Low128(mag) ==
  IF Len(mag) <= 8 THEN mag ELSE StripZeros(SubSeq(mag, Len(mag) - 7, Len(mag)))

\* 2^128 - mag, for 0 < mag < 2^128
Complement128(mag) ==
  StripZeros(MagInc([i \in 1..8 |->
                       IF i <= 8 - Len(mag) THEN 65535
                       ELSE 65535 - mag[i - (8 - Len(mag))]]))

\* the magnitude of BigInt.asUintN(128, big), given the low 128 bits of |big|
asUintN128(neg, low) ==
  IF ~neg \/ low = <<>> THEN low ELSE Complement128(low)

\* BigInt.asIntN(128, .) of an unsigned 128-bit magnitude
asIntN128(u) ==
  IF MagLess(u, TwoTo127) THEN [neg |-> FALSE, mag |-> u]
  ELSE [neg |-> TRUE, mag |-> Complement128(u)]

\* the value fits the 128-bit type
Fits128(big, type) ==
  IF type = "u128" THEN ~big.neg /\ Len(big.mag) <= 8
  ELSE IF big.neg THEN ~MagLess(TwoTo127, big.mag)
  ELSE MagLess(big.mag, TwoTo127)

\* nativeToScVal(bigVal, { type }) of stellar-sdk for the two 128-bit types. The
\* converter hands it any value; a value that does not fit is refused by the library or
\* reduced to its low 128 bits, depending on the encoder the build carries (wraps).
nativeToScVal(big, type, wraps) ==
  IF Fits128(big, type)
  THEN Return([type |-> type, value |-> [neg |-> big.neg, mag |-> big.mag]])
  ELSE IF ~wraps
  THEN Throw(JsError(LibraryText.bigint_values_out_of_range))
  ELSE IF type = "u128"
  THEN Return([type |-> type,
               value |-> [neg |-> FALSE, mag |-> asUintN128(big.neg, Low128(big.mag))]])
  ELSE Return([type |-> type,
               value |-> asIntN128(asUintN128(big.neg, Low128(big.mag)))])

\* the catch block of the 128-bit conversions, or their success
fromNative(value, type, outcome) ==
  IF outcome.threw
  THEN Failure(ConverterText.Failed_to_convert \o ToText(value) \o ConverterText.to_ScVal \o type
                 \o ConverterText.colon_sp \o outcome.error.message)
  ELSE Success(outcome.value)

\* numberToScValU128 once bigVal is computed (or BigInt has thrown)
checkU128(value, bigVal, wraps) ==
  IF bigVal.threw
  THEN Failure(ConverterText.Failed_to_convert \o ToText(value) \o ConverterText.to_ScVal_u128
                 \o NotAnInteger(value))
  ELSE IF bigVal.neg
  THEN Failure(ConverterText.Value \o ToText(value)
                 \o ConverterText.is_negative_u128_requires_non_negati)
  ELSE fromNative(value, ConverterText.u128, nativeToScVal(bigVal, "u128", wraps))

numberToScValU128(value, wraps) == checkU128(value, toBigInt(value), wraps)

\* numberToScValI128 once bigVal is computed (or BigInt has thrown)
checkI128(value, bigVal, wraps) ==
  IF bigVal.threw
  THEN Failure(ConverterText.Failed_to_convert \o ToText(value) \o ConverterText.to_ScVal_i128
                 \o NotAnInteger(value))
  ELSE fromNative(value, ConverterText.i128, nativeToScVal(bigVal, "i128", wraps))

numberToScValI128(value, wraps) == checkI128(value, toBigInt(value), wraps)

\* ------------------------------------------------------------------------
\* The wide conversions applied to values around their bounds
\* ------------------------------------------------------------------------

WideNames ==
  {"numberToScValU64", "numberToScValI64", "numberToScValU128", "numberToScValI128"}

\* the conversion of that name applied to a value
Convert(name, value, wraps) ==
  CASE name = "numberToScValU64"  -> numberToScValU64(value)
    [] name = "numberToScValI64"  -> numberToScValI64(value)
    [] name = "numberToScValU128" -> numberToScValU128(value, wraps)
    [] name = "numberToScValI128" -> numberToScValI128(value, wraps)

\* 2^63 and 2^128
TwoTo63 == <<32768, 0, 0, 0>>
TwoTo128 == <<1, 0, 0, 0, 0, 0, 0, 0, 0>>

\* 0, 1, and each power 2^63, 2^64, 2^127, 2^128 with its two neighbours
WideMagnitudes ==
  {<<>>, <<1>>}
    \cup UNION { {I64_MAX.mag, TwoTo63, MagInc(TwoTo63)},
                 {U64_MAX, TwoTo64, MagInc(TwoTo64)},
                 {[i \in 1..8 |-> IF i = 1 THEN 32767 ELSE 65535], TwoTo127,
                  MagInc(TwoTo127)},
                 {[i \in 1..8 |-> 65535], TwoTo128, MagInc(TwoTo128)} }

\* those magnitudes as bigints of either sign; small numbers with and without a half
\* of either sign; NaN and Infinity
WideInputs ==
  { JsBigInt(neg /\ mag # <<>>, mag) : neg \in BOOLEAN, mag \in WideMagnitudes }
    \cup { JsNumber(neg, mag, frac) :
             neg \in BOOLEAN, mag \in {<<>>, <<1>>, <<45000>>}, frac \in BOOLEAN }
    \cup {JsNaN, JsInfinity}

WideStart ==
  /\ LifecycleInit
  /\ options = NoOptions
  /\ env \in {[MAINNET |-> <<>>, TESTNET |-> <<>>, LEGACY |-> <<>>]}
  /\ CacheInit
  /\ PoolInit
  /\ KitInit
  /\ call \in [value : WideInputs, wraps : BOOLEAN]
  /\ returned = NoResults

\* one of the four conversions is applied
ConvertWide ==
  /\ \E name \in WideNames \ DOMAIN returned :
       returned' = returned @@ (name :> Convert(name, call.value, call.wraps))
  /\ UNCHANGED <<lifecycleVars, env, cacheVars, poolVars, kit, call>>

WideNext == ConvertWide

WideSpec == WideStart /\ [][WideNext]_vars

\* ------------------------------------------------------------------------
\* src/src/utils/sorobanConverter.ts: toScVal without a target type
\* ------------------------------------------------------------------------

\* further JavaScript values: booleans, arrays, byte buffers, plain objects (their
\* own enumerable properties in insertion order), functions and symbols
JsBoolean(b) == [t |-> "boolean", b |-> b]
JsArray(items) == [t |-> "array", items |-> items]
JsBuffer(bytes) == [t |-> "Buffer", bytes |-> bytes]
JsUint8Array(bytes) == [t |-> "Uint8Array", bytes |-> bytes]
JsObject(entries) == [t |-> "plain", entries |-> entries]
JsFunction == [t |-> "function"]
JsSymbol == [t |-> "symbol"]

\* Object.entries(value): the properties of a plain object, the indexed elements of a
\* typed array
Object_entries(value) ==
  IF value.t = "Uint8Array"
  THEN [i \in 1..Len(value.bytes) |->
          [key |-> ToText(SmallInt(i - 1)), value |-> SmallInt(value.bytes[i])]]
  ELSE value.entries

MAX_SYMBOL_LENGTH == 32

SymbolStart ==
  {"a","b","c","d","e","f","g","h","i","j","k","l","m","n","o","p","q","r","s","t","u",
   "v","w","x","y","z","A","B","C","D","E","F","G","H","I","J","K","L","M","N","O","P",
   "Q","R","S","T","U","V","W","X","Y","Z","_"}
SymbolRest == SymbolStart \cup {"0","1","2","3","4","5","6","7","8","9"}

\* /^[a-zA-Z_][a-zA-Z0-9_]*$/ on a string of 1..MAX_SYMBOL_LENGTH characters
isValidSymbol(value) ==
  /\ Len(value) # 0
  /\ Len(value) <= MAX_SYMBOL_LENGTH
  /\ value[1] \in SymbolStart
  /\ \A i \in 2..Len(value) : value[i] \in SymbolRest

\* stringToScValSymbol of a property name
stringToScValSymbol(value) ==
  IF ~isValidSymbol(value)
  THEN Failure(ConverterText.Invalid_symbol \o value
         \o ConverterText.must_be_1_32_chars_alphanumeric_unde)
  ELSE Success([type |-> "scvSymbol", value |-> value])

boolToScVal(value) ==
  IF value.t # "boolean"
  THEN Failure(ConverterText.Expected_boolean_but_received \o TypeOf(value))
  ELSE Success([type |-> "scvBool", value |-> value.b])

\* Buffer.from(value) keeps the bytes
bytesToScVal(value) == Success([type |-> "scvBytes", value |-> value.bytes])

\* the number branch of the inference
inferNumber(value) ==
  IF IsInteger(value) /\ ~IsNegative(value) /\ ~MagLess(U32_MAX, value.mag)
  THEN numberToScValU32(value)
  ELSE numberToScValU64(value)

\* arrayToScValVec without an element type: one element after the other from index i
\* on (elements holding the converted ones), by inferred conversions
RECURSIVE vecFrom(_, _, _)
\* objectToScValMap without value types: one entry after the other, from entry i on
RECURSIVE mapFrom(_, _, _)

\* toScVal(value): the branch chosen by the kind of the value, in the order of the code
toScValInferred(value) ==
  IF value.t \in {"null", "undefined"} THEN Success([type |-> "scvVoid"])
  ELSE IF value.t = "boolean" THEN boolToScVal(value)
  ELSE IF value.t = "number" THEN inferNumber(value)
  ELSE IF value.t = "bigint" THEN numberToScValU64(value)
  ELSE IF value.t = "string" THEN stringToScVal(value)
  ELSE IF value.t = "array" THEN vecFrom(value.items, 1, <<>>)
  ELSE IF TypeOf(value) = JsText.object /\ value.t # "Buffer"
  THEN mapFrom(Object_entries(value), 1, <<>>)
  ELSE IF value.t \in {"Buffer", "Uint8Array"} THEN bytesToScVal(value)
  ELSE Failure(ConverterText.Cannot_infer_ScVal_type_for_value_of \o TypeOf(value))

pushElement(arr, i, elements, elResult) ==
  IF isConversionError(elResult)
  THEN Failure(ConverterText.Failed_to_convert_array_element_at_i \o ToText(SmallInt(i - 1))
                 \o ConverterText.colon_sp \o elResult.error)
  ELSE vecFrom(arr, i + 1, Append(elements, elResult.value))

vecFrom(arr, i, elements) ==
  IF i > Len(arr) THEN Success([type |-> "scvVec", value |-> elements])
  ELSE pushElement(arr, i, elements, toScValInferred(arr[i]))

pushInferred(entries, i, mapEntries, keyResult, valResult) ==
  IF isConversionError(keyResult)
  THEN Failure(ConverterText.Failed_to_convert_map_key \o entries[i].key \o ConverterText._colon_sp
                 \o keyResult.error)
  ELSE IF isConversionError(valResult)
  THEN Failure(ConverterText.Failed_to_convert_map_value_for_key \o entries[i].key
                 \o ConverterText._colon_sp \o valResult.error)
  ELSE mapFrom(entries, i + 1,
               Append(mapEntries, [key |-> keyResult.value, val |-> valResult.value]))

mapFrom(entries, i, mapEntries) ==
  IF i > Len(entries) THEN Success([type |-> "scvMap", value |-> mapEntries])
  ELSE pushInferred(entries, i, mapEntries, stringToScValSymbol(entries[i].key),
                    toScValInferred(entries[i].value))

arrayToScValVec(arr) == vecFrom(arr.items, 1, <<>>)

\* ------------------------------------------------------------------------
\* The inferred conversion applied to values of every kind
\* ------------------------------------------------------------------------

\* values that are neither arrays nor objects
ScalarInputs ==
  {JsNull, Undefined, JsBoolean(TRUE), JsBoolean(FALSE), JsFunction, JsSymbol,
   JsString(SampleText.hello), JsString(<<>>),
   SmallInt(0), SmallInt(42), JsNumber(FALSE, U32_MAX, FALSE), JsNumber(FALSE, TwoTo32, FALSE),
   JsNumber(TRUE, <<1>>, FALSE), JsNumber(FALSE, <<1>>, TRUE), JsNaN, JsInfinity,
   JsNumber(FALSE, TwoTo64, FALSE),
   JsBigInt(FALSE, <<>>), JsBigInt(FALSE, <<100>>), JsBigInt(TRUE, <<1>>),
   JsBigInt(FALSE, TwoTo64)}

ByteInputs ==
  { JsBuffer(bytes) : bytes \in {<<>>, <<1, 2>>, <<255>>} }
    \cup { JsUint8Array(bytes) : bytes \in {<<>>, <<1, 2>>, <<255>>} }

\* arrays and objects of scalars and byte buffers
FlatInputs ==
  {JsArray(<<>>), JsObject(<<>>), JsArray(<<SmallInt(1), SmallInt(2), SmallInt(3)>>),
   JsArray(<<SmallInt(1), JsFunction>>),
   JsObject(<<[key |-> SampleText.a, value |-> SmallInt(1)],
              [key |-> SampleText.total_volume, value |-> JsBigInt(FALSE, <<100>>)]>>),
   JsObject(<<[key |-> SampleText.n9lives, value |-> SmallInt(1)]>>)}
    \cup { JsArray(<<v>>) : v \in ScalarInputs \cup ByteInputs }
    \cup { JsObject(<<[key |-> SampleText.a, value |-> v]>>) : v \in ScalarInputs \cup ByteInputs }

InferInputs ==
  ScalarInputs \cup ByteInputs \cup FlatInputs
    \cup { JsArray(<<SmallInt(7), v>>) : v \in FlatInputs }
    \cup { JsObject(<<[key |-> SampleText.inner, value |-> v]>>) : v \in FlatInputs }

InferStart ==
  /\ LifecycleInit
  /\ options = NoOptions
  /\ env \in {[MAINNET |-> <<>>, TESTNET |-> <<>>, LEGACY |-> <<>>]}
  /\ CacheInit
  /\ PoolInit
  /\ KitInit
  /\ call \in [value : InferInputs]
  /\ returned = NoResults

\* toScVal(value) is called
InferToScVal ==
  /\ "toScVal" \notin DOMAIN returned
  /\ returned' = returned @@ ("toScVal" :> toScValInferred(call.value))
  /\ UNCHANGED <<lifecycleVars, env, cacheVars, poolVars, kit, call>>

InferNext == InferToScVal

InferSpec == InferStart /\ [][InferNext]_vars

\* ------------------------------------------------------------------------
\* src/app/services/indexerService.ts: ConcurrencyManager
\* ------------------------------------------------------------------------

MAX_CONCURRENT_REQUESTS == 5

\* how the wrapped function of a call behaves: it throws before returning a promise,
\* or its promise is fulfilled or rejected later
FnOutcomes == {"throws", "fulfilled", "rejected"}

Pool(a, q, t, r) == [active |-> a, queue |-> q, task |-> t, released |-> r]

\* the finally block of run for caller c: the slot is given back and the oldest
\* waiter, if any, is resolved
finallyBlock(a, q, t, c, outcome) ==
  IF q = <<>>
  THEN Pool(a - 1, q, [t EXCEPT ![c] = "idle"], outcome)
  ELSE Pool(a - 1, Tail(q), [t EXCEPT ![c] = "idle", ![Head(q)] = "woken"], outcome)

\* this.active++ and the call of fn: a function that throws reaches the finally block
\* at once, otherwise run is suspended on the promise of fn
acquire(a, q, t, r, c, fn) ==
  IF fn = "throws"
  THEN finallyBlock(a + 1, q, t, c, "throws")
  ELSE Pool(a + 1, q, [t EXCEPT ![c] = "running"], r)

\* the loop of run without its repetition: a resolved waiter takes a slot untested
loopTopOnce(a, q, t, r, c, fn) ==
  IF a >= MAX_CONCURRENT_REQUESTS /\ t[c] # "woken"
  THEN Pool(a, Append(q, c), [t EXCEPT ![c] = "queued"], r)
  ELSE acquire(a, q, t, r, c, fn)

\* the top of the while loop of run, for a new caller and for a resolved waiter alike
loopTop(a, q, t, r, c, fn) ==
  IF a >= MAX_CONCURRENT_REQUESTS
  THEN Pool(a, Append(q, c), [t EXCEPT ![c] = "queued"], r)
  ELSE acquire(a, q, t, r, c, fn)

Becomes(pool) ==
  /\ active' = pool.active
  /\ queue' = pool.queue
  /\ task' = pool.task
  /\ released' = pool.released

PoolStart ==
  /\ LifecycleInit
  /\ options = NoOptions
  /\ env \in {[MAINNET |-> <<>>, TESTNET |-> <<>>, LEGACY |-> <<>>]}
  /\ CacheInit
  /\ CallInit
  /\ PoolInit
  /\ KitInit

\* concurrencyManager.run(fn) is called
Run ==
  /\ \E c \in Callers, fn \in FnOutcomes :
       /\ task[c] = "idle"
       /\ Becomes(loopTop(active, queue, task, released, c, fn))
  /\ UNCHANGED <<lifecycleVars, env, cacheVars, callVars, kit, requeued>>

\* a waiter whose promise was resolved continues with the loop
Resume ==
  /\ \E c \in Callers, fn \in FnOutcomes :
       /\ task[c] = "woken"
       /\ Becomes(loopTop(active, queue, task, released, c, fn))
  /\ requeued' = (requeued \/ active >= MAX_CONCURRENT_REQUESTS)
  /\ UNCHANGED <<lifecycleVars, env, cacheVars, callVars, kit>>

\* the promise of a wrapped function settles
FnSettles ==
  /\ \E c \in Callers, outcome \in {"fulfilled", "rejected"} :
       /\ task[c] = "running"
       /\ task' = [task EXCEPT ![c] = outcome]
  /\ UNCHANGED <<lifecycleVars, env, cacheVars, callVars, kit, active, queue, released,
                 requeued>>

\* run continues after the await of fn: the finally block
Finally ==
  /\ \E c \in Callers :
       /\ task[c] \in {"fulfilled", "rejected"}
       /\ Becomes(finallyBlock(active, queue, task, c, task[c]))
  /\ UNCHANGED <<lifecycleVars, env, cacheVars, callVars, kit, requeued>>

PoolNext == Run \/ Resume \/ FnSettles \/ Finally

PoolSpec == PoolStart /\ [][PoolNext]_vars

\* ------------------------------------------------------------------------
\* src/app/utils/walletKit.ts: mintWrap and fetchIndexedStats
\* ------------------------------------------------------------------------

\* the truthiness of a value
Truthy(v) ==
  CASE v.t \in {"undefined", "null"} -> FALSE
    [] v.t = "string" -> v.s # <<>>
    [] v.t = "number" -> v.k = "Infinity" \/ (v.k = "finite" /\ ~IsZero(v))
    [] OTHER -> TRUE

\* value || fallback
ValueOr(value, fallback) == IF Truthy(value) THEN value ELSE fallback

\* the values fetchIndexedStats returns from its catch block
DefaultStats == StatsObject(SmallInt(0), JsString(KitText.XLM), SmallInt(0), Undefined)

\* the try block of fetchIndexedStats after response.json() has settled
statsFromData(data) ==
  IF data.threw THEN Throw(data.error)
  ELSE IF data.value.t \in {"null", "undefined"}
  THEN Throw(JsError(LibraryText.Cannot_read_properties_of \o ToText(data.value)
                       \o LibraryText.reading_totalVolume))
  ELSE Return(StatsObject(ValueOr(data.value.totalVolume, SmallInt(0)),
                          ValueOr(data.value.mostActiveAsset, JsString(KitText.XLM)),
                          ValueOr(data.value.contractCalls, SmallInt(0)),
                          Undefined))

\* the try block of fetchIndexedStats after fetch has settled
statsFromResponse(response) ==
  IF response.threw THEN response
  ELSE IF ~response.value.ok
  THEN Throw(JsError(KitText.Failed_to_fetch_indexed_stats \o response.value.statusText))
  ELSE statsFromData(response.value.json)

\* fetchIndexedStats without its catch block
fetchIndexedStatsUncaught(response) == statsFromResponse(response)

\* fetchIndexedStats: whatever the try block throws is logged and answered with the
\* defaults
fetchIndexedStats(response) ==
  IF statsFromResponse(response).threw THEN Return(DefaultStats)
  ELSE statsFromResponse(response)

\* the MintWrapOptions built from the parameters and the final stats
mintOptions(params, finalStats) ==
  [accountAddress |-> params.userAddress,
   network |-> params.network,
   stats |-> StatsObject(finalStats.totalVolume, finalStats.mostActiveAsset,
                         finalStats.contractCalls,
                         ValueOr(finalStats.timeframe, JsString(KitText.all))),
   observer |-> params.observer]

\* the catch block of mintWrap for an Error that is none of the contract error classes
kitRejection(error) ==
  IF error.kind = "Error"
  THEN [kind |-> "rejected", error |-> JsError(KitText.Minting_failed \o error.message)]
  ELSE [kind |-> "rejected",
        error |-> JsError(KitText.Minting_failed_Unknown_error_occurre)]

\* answers of fetch("/api/wrapped?...")
StatsData(totalVolume, mostActiveAsset, contractCalls) ==
  [t |-> "object", totalVolume |-> totalVolume, mostActiveAsset |-> mostActiveAsset,
   contractCalls |-> contractCalls]
FetchResponses ==
  { Throw(JsError(SampleText.Failed_to_fetch)),
    Return([ok |-> FALSE, statusText |-> SampleText.Internal_Server_Error]),
    Return([ok |-> TRUE, statusText |-> SampleText.OK,
            json |-> Throw(JsError(SampleText.Unexpected_token_in_JSON_at_position))]),
    Return([ok |-> TRUE, statusText |-> SampleText.OK, json |-> Return(JsNull)]),
    Return([ok |-> TRUE, statusText |-> SampleText.OK,
            json |-> Return(StatsData(SmallInt(45000), JsString(SampleText.USDC),
                                      SmallInt(120)))]),
    Return([ok |-> TRUE, statusText |-> SampleText.OK,
            json |-> Return(StatsData(Undefined, JsString(<<>>), SmallInt(0)))]) }

\* the parameters of mintWrap: with stats, and without
KitParams ==
  [userAddress : {JsString(ValidAccountKey)},
   network : {Testnet},
   stats : {Undefined, JsNull,
            StatsObject(SmallInt(45000), JsString(SampleText.XLM), SmallInt(120),
                        JsString(SampleText.yearly)),
            StatsObject(SmallInt(45000), JsString(SampleText.XLM), SmallInt(120), Undefined)},
   observer : {"listening"}]

\* the testnet contract is configured
KitEnvInputs ==
  { [MAINNET |-> ValidAccountKey, TESTNET |-> ValidContractKey,
     LEGACY |-> PLACEHOLDER_ADDRESS] }

KitStart ==
  /\ LifecycleInit
  /\ options = NoOptions
  /\ env \in KitEnvInputs
  /\ CacheInit
  /\ CallInit
  /\ PoolInit
  /\ KitInit

\* mintWrap(params) is called: with stats the bridge is called at once, without them
\* the stats are fetched first
KitMintWrap ==
  /\ kit.pc = "idle"
  /\ \E params \in KitParams :
       IF Truthy(params.stats)
       THEN /\ kit' = [pc |-> "minting", params |-> params, fetched |-> NoResponse,
                       result |-> [kind |-> "pending"]]
            /\ options' = mintOptions(params, params.stats)
            /\ UNCHANGED pc
       ELSE /\ kit' = [pc |-> "fetching", params |-> params, fetched |-> NoResponse,
                       result |-> [kind |-> "pending"]]
            /\ UNCHANGED <<pc, options>>
  /\ UNCHANGED <<notified, calls, attempts, clock, transactionHash, result, caught,
                 responses, transient, env, cacheVars, callVars, poolVars>>

\* fetch settles: the final stats are known and the bridge is called
KitFetchReturns ==
  /\ kit.pc = "fetching"
  /\ \E response \in FetchResponses :
       \E finalStats \in {fetchIndexedStats(response)} :
         IF finalStats.threw
         THEN /\ kit' = [kit EXCEPT !.pc = "settled", !.fetched = response,
                                    !.result = kitRejection(finalStats.error)]
              /\ UNCHANGED options
         ELSE /\ kit' = [kit EXCEPT !.pc = "minting", !.fetched = response]
              /\ options' = mintOptions(kit.params, finalStats.value)
  /\ UNCHANGED <<pc, notified, calls, attempts, clock, transactionHash, result, caught,
                 responses, transient, env, cacheVars, callVars, poolVars>>

\* the promise of the bridge's mintWrap settles: the hash is returned, or the error
\* is wrapped and rethrown
KitSettles ==
  /\ kit.pc = "minting"
  /\ result.kind # "pending"
  /\ kit' = [kit EXCEPT !.pc = "settled",
                        !.result = IF result.kind = "resolved"
                                   THEN [kind |-> "resolved",
                                         value |-> result.transactionHash]
                                   ELSE kitRejection(result.error)]
  /\ UNCHANGED <<lifecycleVars, env, cacheVars, callVars, poolVars>>

\* the bridge runs only once walletKit has called it
Bridge == kit.pc = "minting" /\ Next

KitNext == KitMintWrap \/ KitFetchReturns \/ KitSettles \/ Bridge

KitSpec == KitStart /\ [][KitNext]_vars
\* ------------------------------------------------------------------------
\* Properties of the mintWrap lifecycle
\* ------------------------------------------------------------------------

\* the states the observer has been notified of
NotifiedStates == {notified[i].state : i \in 1..Len(notified)}

\* the place of a state in the order pending, simulating, signed, submitted, confirmed
Rank(state) ==
  CASE state = "pending"    -> 1
    [] state = "simulating" -> 2
    [] state = "signed"     -> 3
    [] state = "submitted"  -> 4
    [] state = "confirmed"  -> 5
    [] OTHER                -> 0

\* a collaborator operation has answered
Answered(response) == "threw" \in DOMAIN response

\* the simulation answered without error and without revert
SimulationSucceeded ==
  /\ Answered(responses.simulation)
  /\ ~responses.simulation.threw
  /\ ~responses.simulation.value.hasError
  /\ ~responses.simulation.value.errorResult

\* the simulation reported an error or a revert, or the simulate call threw
SimulationFailed == Answered(responses.simulation) /\ ~SimulationSucceeded

\* the last status lookup answered SUCCESS
LookupSucceeded ==
  /\ Answered(responses.lookup)
  /\ ~responses.lookup.threw
  /\ responses.lookup.value.status = "SUCCESS"

\* C1: the states notified to the observer, `failed` left aside, follow the order
\* pending, simulating, signed, submitted, confirmed: none of them is notified after
\* one that comes later in that order, and no other state is ever notified.
C1_ForwardOrder ==
  /\ NotifiedStates \subseteq
       {"pending", "simulating", "signed", "submitted", "confirmed", "failed"}
  /\ \A i, j \in 1..Len(notified) :
       (i < j /\ notified[i].state # "failed" /\ notified[j].state # "failed")
         => Rank(notified[i].state) <= Rank(notified[j].state)

\* an invocation that failed after `submitted`: five states were notified in order
C1_Witness ==
  /\ pc = "rejected"
  /\ Len(notified) >= 5
  /\ [i \in 1..4 |-> notified[i].state] = <<"pending", "simulating", "signed", "submitted">>
  /\ notified[5].state = "failed"

\* C2: once `failed` or `confirmed` has been notified, nothing more is notified: only
\* the last notification of an invocation may be `failed` or `confirmed`.
C2_TerminalStates ==
  \A i \in 1..Len(notified) :
    notified[i].state \in {"failed", "confirmed"} => i = Len(notified)

\* C3: when the simulation reports an error or a revert, or the simulate call throws,
\* mintWrap has notified `failed` and rejected, has notified none of `signed`,
\* `submitted`, `confirmed`, and has called neither the wallet nor the submission.
C3_SimulationFailure ==
  SimulationFailed =>
    /\ pc = "rejected"
    /\ result.kind = "rejected"
    /\ options.observer # "none" => "failed" \in NotifiedStates
    /\ NotifiedStates \cap {"signed", "submitted", "confirmed"} = {}
    /\ calls.signTransaction = 0
    /\ calls.sendTransaction = 0
    /\ calls.getTransaction = 0

\* the simulation reported a revert to an observer
C3_Witness ==
  /\ SimulationFailed
  /\ ~responses.simulation.threw
  /\ responses.simulation.value.errorResult
  /\ options.observer = "listening"
  /\ pc = "rejected"

\* C4, one step: after k < MAX_CONFIRMATION_ATTEMPTS lookups that found nothing, and
\* within the wall-clock budget, one more lookup is made; and a lookup that answers
\* SUCCESS makes mintWrap notify `confirmed` and resolve with the ledger of that
\* answer, after exactly k+1 lookups.
C4_Step ==
  /\ (pc = "sleep" /\ attempts < MAX_CONFIRMATION_ATTEMPTS
        /\ clock' <= TRANSACTION_TIMEOUT)
       => (pc' = "lookup" /\ calls'.getTransaction = attempts + 1)
  /\ (pc = "lookup" /\ LookupSucceeded')
       => /\ pc' = "resolved"
          /\ result'.kind = "resolved"
          /\ "ledger" \in DOMAIN responses'.lookup.value
               => result'.ledger = responses'.lookup.value.ledger
          /\ calls'.getTransaction = attempts + 1
          /\ options.observer # "none"
               => /\ notified'[Len(notified')].state = "confirmed"
                  /\ notified'[Len(notified')].data.ledger = result'.ledger

\* C4: for every k below the maximum, k lookups that find nothing followed by SUCCESS
\* make mintWrap confirm with the ledger of the SUCCESS answer after k+1 lookups.
C4_PollingSuccess == [][C4_Step]_vars

\* SUCCESS at the last attempt the budget allows: 59 lookups found nothing
C4_Witness ==
  /\ pc = "resolved"
  /\ transient = 0
  /\ attempts = MAX_CONFIRMATION_ATTEMPTS - 1
  /\ calls.getTransaction = MAX_CONFIRMATION_ATTEMPTS
  /\ result.ledger = MaxLedger

\* C5: when the attempt budget runs out without SUCCESS or FAILED, the error mintWrap
\* rejects with is one the error translation classifies as a timeout.
C5_AttemptBudgetIsTimeout ==
  (pc = "rejected" /\ attempts = MAX_CONFIRMATION_ATTEMPTS)
    => ErrorClass(caught) = "network_timeout"

\* what mintWrap rejects with when a status lookup answers FAILED
FailedStatusRejection ==
  JsError(BridgeText.Minting_failed \o parseContractError(JsError(FailedOnNetworkMessage)))

\* C6: the rejection surfaced when a budget runs out (attempts or wall clock) differs
\* from the one surfaced when a status lookup answers FAILED.
C6_BudgetDistinctFromFailure ==
  (pc = "rejected" /\ caught \in {ConfirmationTimeoutError, NotConfirmedError})
    => result.error # FailedStatusRejection

\* C7: when mintWrap has rejected and an observer was supplied, the observer has been
\* notified of `failed`.
C7_FailedBeforeRejection ==
  (result.kind = "rejected" /\ options.observer # "none")
    => "failed" \in NotifiedStates

\* a rejection at address resolution, before any call, with an observer
C7_Witness ==
  /\ result.kind = "rejected"
  /\ options.observer = "throwing"
  /\ calls = NoCalls
  /\ notified[Len(notified)].state = "failed"

\* C8: mintWrap has resolved only if the simulation succeeded, the wallet returned a
\* non-empty signed payload, the submission returned a hash and a lookup answered
\* SUCCESS; the result is `confirmed`, with the hash of the submission and the ledger
\* of the SUCCESS answer.
C8_ResolvedOnlyAfterFullLifecycle ==
  result.kind = "resolved" =>
    /\ SimulationSucceeded
    /\ Answered(responses.signature) /\ ~responses.signature.threw
    /\ responses.signature.value.signedTxXdr # <<>>
    /\ Answered(responses.submission) /\ ~responses.submission.threw
    /\ responses.submission.value.hash # <<>>
    /\ LookupSucceeded
    /\ result.state = "confirmed"
    /\ result.transactionHash = responses.submission.value.hash
    /\ "ledger" \in DOMAIN responses.lookup.value
         => result.ledger = responses.lookup.value.ledger
    /\ "ledger" \notin DOMAIN responses.lookup.value => result.ledger = 0

\* a resolved invocation: the second hash, a ledger above zero, an attempt retried
C8_Witness ==
  /\ result.kind = "resolved"
  /\ result.transactionHash = SampleText.c3d4
  /\ result.ledger = 1
  /\ attempts > 0

\* the contract address configured for the network of the invocation
ConfiguredAddress ==
  IF options.network = Mainnet THEN getContractConfig(env).mainnet
  ELSE getContractConfig(env).testnet

\* C9: when the contract address configured for the active network is a placeholder or
\* is no valid contract address (56 characters, C prefix, base32 alphabet, valid
\* checksum), mintWrap calls neither the network nor the wallet.
C9_InvalidContractFailsFast ==
  (isValidNetwork(options.network)
     /\ (StartsWith(ConfiguredAddress, BridgeText.CAAAAAAAA)
           \/ ~StrKey_isValidContract(ConfiguredAddress)))
    => calls = NoCalls

\* C10: when the stats record fails validation or the account address is malformed,
\* mintWrap issues no network call.
C10_ValidationBeforeNetwork ==
  (validateIndexedStats(options.stats) # <<>>
     \/ ~isValidStellarAddress(options.accountAddress.s))
    => calls = NoCalls

\* C11: in one invocation the wallet is asked to sign at most once and the signed
\* transaction is submitted at most once; the account load and the simulation are not
\* repeated either: only the status lookup is.
C11_SignAndSubmitOnce ==
  /\ calls.signTransaction <= 1
  /\ calls.sendTransaction <= 1
  /\ calls.getAccount <= 1
  /\ calls.simulateTransaction <= 1

\* lookups threw and were retried, then the status was FAILED: one signature, one submission
C11_Witness ==
  /\ pc = "rejected"
  /\ transient = MaxLookupErrors
  /\ calls.getTransaction > MaxLookupErrors
  /\ calls.signTransaction = 1
  /\ calls.sendTransaction = 1

\* the invocation has settled: resolved after `confirmed`, or rejected after `failed`
Settled ==
  \/ /\ pc = "resolved"
     /\ result.kind = "resolved"
     /\ options.observer # "none" => notified[Len(notified)].state = "confirmed"
  \/ /\ pc = "rejected"
     /\ result.kind = "rejected"
     /\ options.observer # "none" => notified[Len(notified)].state = "failed"

\* C12: when every issued call returns, every invocation eventually settles, resolved
\* after `confirmed` or rejected after `failed`; and at no time has it made more than
\* MAX_CONFIRMATION_ATTEMPTS status lookups.
C12_Terminates ==
  /\ [](calls.getTransaction <= MAX_CONFIRMATION_ATTEMPTS)
  /\ <>Settled

\* the attempt budget was used up: 60 lookups, then the rejection
C12_Witness ==
  /\ pc = "rejected"
  /\ attempts = MAX_CONFIRMATION_ATTEMPTS
  /\ calls.getTransaction = MAX_CONFIRMATION_ATTEMPTS
  /\ caught = NotConfirmedError


\* the last operation was a switch of the store from one network to the other
Switched == lastCall.fn = "setNetwork" /\ lastCall.from # lastCall.network

\* C13: after a switch of the active network the cache holds no instance for the network
\* that was active before, and a request for that network is not served from the cache.
C13_SwitchClearsCache ==
  Switched => ~hasCachedContract(contractInstanceCache, lastCall.from)

\* the address the configuration holds for a supported network
ConfiguredFor(n) ==
  IF n = Mainnet THEN getContractConfig(env).mainnet ELSE getContractConfig(env).testnet

\* C14: the keys of the contract cache are supported networks; the instance cached for,
\* and the instance getContractInstance returns for, a network is built from the address
\* configured for that network; and after clearContractCache the cache holds no entry.
C14_CachePerNetwork ==
  /\ DOMAIN contractInstanceCache \subseteq ValidNetworks
  /\ \A n \in DOMAIN contractInstanceCache :
       contractInstanceCache[n].contractId = ConfiguredFor(n)
  /\ (lastCall.fn = "getContractInstance" /\ ~lastCall.outcome.threw) =>
       /\ isValidNetwork(lastCall.network)
       /\ lastCall.outcome.value.contractId = ConfiguredFor(lastCall.network)
  /\ lastCall.fn = "clearContractCache" => DOMAIN contractInstanceCache = {}

\* both networks are cached with different addresses and testnet is served from the cache
C14_Witness ==
  /\ DOMAIN contractInstanceCache = ValidNetworks
  /\ ConfiguredFor(Mainnet) # ConfiguredFor(Testnet)
  /\ lastCall.fn = "getContractInstance"
  /\ lastCall.network = Testnet
  /\ lastCall.cached
  /\ lastCall.outcome.value.contractId = SecondContractKey

\* what buildContractArgs / buildContractArgsAsMap returned for the inputs of `call`
Built == returned["buildContractArgs"]
BuiltAsMap == returned["buildContractArgsAsMap"]

\* the five arguments of mint_wrap, in order, for the given inputs
FiveArguments(data, stats, accountAddress) ==
  /\ Len(data.args) = 5
  /\ Len(data.argDescriptions) = 5
  /\ data.args[1] = [type |-> "scvAddress", value |-> Trim(accountAddress.s)]
  /\ data.args[2] = [type |-> "scvU64", value |-> FloorToBigInt(stats.totalVolume).mag]
  /\ data.args[3] = [type |-> "scvString", value |-> stats.mostActiveAsset.s]
  /\ data.args[4] = [type |-> "scvU32", value |-> stats.contractCalls.mag]
  /\ data.args[5] = [type |-> "scvString",
                     value |-> IF stats.timeframe = Undefined THEN BuilderText.all
                               ELSE stats.timeframe.s]
  /\ StartsWith(data.argDescriptions[1], BuilderText.accountAddress)
  /\ StartsWith(data.argDescriptions[2], BuilderText.totalVolume)
  /\ StartsWith(data.argDescriptions[3], BuilderText.mostActiveAsset)
  /\ StartsWith(data.argDescriptions[4], BuilderText.contractCalls)
  /\ StartsWith(data.argDescriptions[5], BuilderText.timeframe)

\* C15: when buildContractArgs succeeds it returns exactly five arguments, Address, U64,
\* String, U32, String, converted from accountAddress, totalVolume, mostActiveAsset,
\* contractCalls and timeframe ("all" when timeframe is omitted), and five descriptions.
C15_FiveArgumentsInOrder ==
  ("buildContractArgs" \in DOMAIN returned /\ Built.success)
    => FiveArguments(Built.data, call.stats, call.accountAddress)

\* a success without a timeframe: the fifth argument is "all"
C15_Witness ==
  /\ "buildContractArgs" \in DOMAIN returned
  /\ Built.success
  /\ call.stats.timeframe = Undefined
  /\ Built.data.args[5].value = BuilderText.all
  /\ Built.data.args[1].value = ValidAccountKey

\* every conversion buildContractArgs makes succeeds
ArgumentConversionsSucceed(stats, accountAddress) ==
  /\ addressToScVal(accountAddress).success
  /\ toScVal(stats.totalVolume, "u64").success
  /\ toScVal(stats.mostActiveAsset, "string").success
  /\ toScVal(stats.contractCalls, "u32").success
  /\ toScVal(timeframeOrAll(stats), "string").success

\* every conversion buildContractArgsAsMap makes succeeds
MapConversionsSucceed(stats, accountAddress) ==
  /\ addressToScVal(accountAddress).success
  /\ \A i \in 1..Len(statsForMap(stats)) :
       toScVal(statsForMap(stats)[i].value, statsForMap(stats)[i].type).success

\* r is a success exactly when validation and the conversions succeed; a failure has
\* errors and no data; a validation failure has the validation errors only
AllOrNothing(r, stats, conversionsSucceed) ==
  /\ r.success <=> (validateIndexedStats(stats) = <<>> /\ conversionsSucceed)
  /\ r.success => DOMAIN r = {"success", "data"}
  /\ ~r.success => (DOMAIN r = {"success", "errors"} /\ Len(r.errors) > 0)
  /\ validateIndexedStats(stats) # <<>> => r.errors = validateIndexedStats(stats)

\* C16: buildContractArgs and buildContractArgsAsMap succeed exactly when the stats pass
\* validateIndexedStats and every conversion succeeds; otherwise the result is a failure
\* with a non-empty error list and no arguments, and when validation fails the errors
\* are those of the validation alone.
C16_AllOrNothing ==
  /\ "buildContractArgs" \in DOMAIN returned =>
       AllOrNothing(Built, call.stats,
                    ArgumentConversionsSucceed(call.stats, call.accountAddress))
  /\ "buildContractArgsAsMap" \in DOMAIN returned =>
       AllOrNothing(BuiltAsMap, call.stats,
                    MapConversionsSucceed(call.stats, call.accountAddress))

\* valid stats whose contractCalls does not fit a u32: both builders fail in a conversion
C16_Witness ==
  /\ DOMAIN returned = {"buildContractArgs", "buildContractArgsAsMap"}
  /\ validateIndexedStats(call.stats) = <<>>
  /\ call.stats.contractCalls.mag = TwoTo32
  /\ ~Built.success
  /\ ~BuiltAsMap.success

InputNames ==
  {BuilderText.accountAddress, BuilderText.totalVolume, BuilderText.mostActiveAsset, BuilderText.contractCalls,
   BuilderText.timeframe}

\* some entry of the error list is about the named input
Mentions(errors, name) == \E i \in 1..Len(errors) : StartsWith(errors[i], name)

\* the conversion of the named input fails
ConversionFails(stats, accountAddress, name) ==
  CASE name = BuilderText.accountAddress  -> ~addressToScVal(accountAddress).success
    [] name = BuilderText.totalVolume     -> ~toScVal(stats.totalVolume, "u64").success
    [] name = BuilderText.mostActiveAsset -> ~toScVal(stats.mostActiveAsset, "string").success
    [] name = BuilderText.contractCalls   -> ~toScVal(stats.contractCalls, "u32").success
    [] name = BuilderText.timeframe       -> ~toScVal(timeframeOrAll(stats), "string").success

\* the named input is invalid: validation objects to it or its conversion fails
InvalidInput(stats, accountAddress, name) ==
  IF name = BuilderText.accountAddress THEN ~addressToScVal(accountAddress).success
  ELSE /\ stats.t = "object"
       /\ \/ Mentions(validateIndexedStats(stats), name)
          \/ ConversionFails(stats, accountAddress, name)

\* C17: the errors buildContractArgs returns mention every input that is invalid among
\* accountAddress, totalVolume, mostActiveAsset, contractCalls and timeframe.
C17_ReportsEveryProblem ==
  "buildContractArgs" \in DOMAIN returned =>
    \A name \in InputNames :
      InvalidInput(call.stats, call.accountAddress, name)
        => (~Built.success /\ Mentions(Built.errors, name))

\* n is an integer with 0 <= n <= 2^32 - 1: at most two 16-bit limbs
InU32Range(n) ==
  /\ n.t = "number" /\ n.k = "finite"
  /\ ~n.frac
  /\ (~n.neg \/ n.mag = <<>>)
  /\ Len(n.mag) <= 2

\* r is the u32 conversion the claim describes of the value n
ConvertsU32(r, n) ==
  /\ r.success <=> InU32Range(n)
  /\ r.success => (r.value.type = "scvU32" /\ SameNumber(u32(r.value), n))

\* C18: numberToScValU32(n) and toScVal(n, "u32") succeed exactly when n is an integer
\* with 0 <= n <= 2^32 - 1, and then the U32 value reads back as n; for a negative n, an
\* n above 2^32 - 1, a non-integer or NaN they return a failure.
C18_U32RoundTrip ==
  \A f \in DOMAIN returned \cap {"numberToScValU32", "toScVal"} :
    ConvertsU32(returned[f], call.value)

\* 2^32 - 1 was converted by both functions and reads back as 2^32 - 1
C18_Witness ==
  /\ DOMAIN returned = {"numberToScValU32", "toScVal"}
  /\ call.value = JsNumber(FALSE, U32_MAX, FALSE)
  /\ returned["numberToScValU32"].success
  /\ u32(returned["toScVal"].value) = call.value

\* the states the observer was notified of, in order
StatesOf(log) == [i \in 1..Len(log) |-> log[i].state]

\* the states a notification can carry
TransactionStates ==
  {"pending", "simulating", "signed", "submitted", "confirmed", "failed"}

\* C19: an observer that throws changes nothing: it is notified exactly as an observer
\* that returns, every step of the lifecycle has the same outcome with either, and an
\* invocation with a throwing observer that resolves has notified all five states.
C19_ObserverErrorsContained ==
  /\ \A state \in TransactionStates :
       emitState(notified, "throwing", state, NoData)
         = emitState(notified, "listening", state, NoData)
  /\ pc = "simulate" =>
       \A r \in SimulationResponses :
         beginSign(simulateTransaction(notified, "throwing", r), "throwing")
           = beginSign(simulateTransaction(notified, "listening", r), "listening")
  /\ pc = "sign" =>
       \A r \in SignResponses :
         beginSubmit(signTransactionWithFreighter(notified, "throwing", r), "throwing")
           = beginSubmit(signTransactionWithFreighter(notified, "listening", r),
                         "listening")
  /\ pc = "submit" =>
       \A r \in SubmitResponses :
         submitTransaction(notified, "throwing", r)
           = submitTransaction(notified, "listening", r)
  /\ (options.observer = "throwing" /\ pc = "resolved") =>
       StatesOf(notified) = <<"pending", "simulating", "signed", "submitted", "confirmed">>
  /\ (options.observer = "throwing" /\ pc = "rejected") =>
       notified[Len(notified)].state = "failed"

\* an invocation whose observer threw on each of the five notifications has resolved
C19_Witness ==
  /\ options.observer = "throwing"
  /\ pc = "resolved"
  /\ result.kind = "resolved"
  /\ Len(notified) = 5

\* C20: a rejection carries the error that reached the catch block of mintWrap: its
\* message is part of the message of the rejection and of the data of the last `failed`
\* notification.
C20_OriginalErrorPreserved ==
  (pc = "rejected" /\ caught.kind = "Error") =>
    /\ Includes(result.error.message, caught.message)
    /\ options.observer # "none" =>
         Includes(notified[Len(notified)].data.error, caught.message)

\* the text of the error the wallet answered the signing request with, if any
SigningErrorText ==
  IF responses.signature = NoResponse THEN <<>>
  ELSE IF responses.signature.threw THEN responses.signature.error.message
  ELSE responses.signature.value.error.message

\* C21: when the text of the wallet's signing error contains "User declined", mintWrap
\* rejects with "Transaction was rejected by user".
C21_UserDeclinedIsUserRejection ==
  (pc = "rejected" /\ Includes(SigningErrorText, BridgeText.User_declined))
    => result.error.message
         = BridgeText.Minting_failed \o BridgeText.Transaction_was_rejected_by_user

\* the last status lookup answered with the status FAILED
FailedAnswer ==
  /\ responses.lookup # NoResponse
  /\ ~responses.lookup.threw
  /\ responses.lookup.value.status = "FAILED"

\* C22: once a status lookup has answered FAILED the invocation is rejected, `failed` is
\* the last notification, and no lookup beyond that one was issued.
C22_FailedStatusStopsPolling ==
  FailedAnswer =>
    /\ pc = "rejected"
    /\ result.kind = "rejected"
    /\ calls.getTransaction = attempts + 1
    /\ options.observer # "none" => notified[Len(notified)].state = "failed"

\* FAILED at the second lookup, within the timeout and far from 60 attempts
C22_Witness ==
  /\ FailedAnswer
  /\ pc = "rejected"
  /\ attempts = 1
  /\ calls.getTransaction = 2
  /\ clock <= TRANSACTION_TIMEOUT

\* C23: after a status lookup has thrown, polling goes on: the invocation is waiting for
\* the next lookup or its answer, or it was rejected because a budget ran out.
C23_TransientLookupErrorsRetried ==
  (responses.lookup # NoResponse /\ responses.lookup.threw) =>
    \/ pc \in {"sleep", "lookup"}
    \/ pc = "resolved"
    \/ pc = "rejected" /\ caught \in {ConfirmationTimeoutError, NotConfirmedError}

\* a status lookup is issued in this step
LookupIssued == calls'.getTransaction > calls.getTransaction

\* the submission has returned a hash in this step, later than the timeout
SubmittedTooLate ==
  /\ pc = "submit"
  /\ transactionHash' # <<>>
  /\ clock' > TRANSACTION_TIMEOUT

\* C28: a status lookup is only issued while at most TRANSACTION_TIMEOUT ms have passed
\* since the start of mintWrap; and when the submission returns later than that, the
\* invocation is rejected with the confirmation timeout, `failed` is notified, and no
\* status lookup is made.
C28_TimeoutAtLoopTop ==
  [][/\ LookupIssued => clock' <= TRANSACTION_TIMEOUT
     /\ SubmittedTooLate =>
          /\ pc' = "rejected"
          /\ caught' = ConfirmationTimeoutError
          /\ calls'.getTransaction = 0
          /\ options.observer # "none" => notified'[Len(notified')].state = "failed"]_vars

\* a submitted transaction was given up without a lookup
C28_Witness ==
  /\ pc = "rejected"
  /\ caught = ConfirmationTimeoutError
  /\ transactionHash # <<>>
  /\ calls.sendTransaction = 1
  /\ calls.getTransaction = 0

\* Math.trunc of a finite number
Trunc(x) == JsNumber(x.neg, x.mag, FALSE)

\* two conversion results agree: both fail, or both succeed with the same value
SameResult(a, b) == a.success = b.success /\ (a.success => a.value = b.value)

\* C24: for a finite non-integer number x, each wide conversion gives for x what it
\* gives for trunc(x).
C24_TruncatesTowardZero ==
  (call.value.t = "number" /\ IsFiniteNumber(call.value) /\ call.value.frac) =>
    \A name \in DOMAIN returned \cap WideNames :
      SameResult(returned[name], Convert(name, Trunc(call.value), call.wraps))

\* lo <= v <= hi for the magnitudes of the bounds: v >= -lo and v <= hi
Within(v, lo, hi) ==
  IF v.neg /\ v.mag # <<>> THEN ~MagLess(lo, v.mag) ELSE ~MagLess(hi, v.mag)

\* the bound of each wide conversion: [0, 2^64-1], [-2^63, 2^63-1], [0, 2^128-1],
\* [-2^127, 2^127-1]
InBound(name, v) ==
  CASE name = "numberToScValU64"  -> Within(v, <<>>, U64_MAX)
    [] name = "numberToScValI64"  -> Within(v, TwoTo63, I64_MAX.mag)
    [] name = "numberToScValU128" -> Within(v, <<>>, [i \in 1..8 |-> 65535])
    [] name = "numberToScValI128" ->
         Within(v, TwoTo127, [i \in 1..8 |-> IF i = 1 THEN 32767 ELSE 65535])

\* C25: applied to an arbitrary-precision integer, each wide conversion succeeds exactly
\* when the integer lies within the bound of its type.
C25_OwnBoundValidated ==
  call.value.t = "bigint" =>
    \A name \in DOMAIN returned \cap WideNames :
      returned[name].success <=> InBound(name, call.value)

\* the conversion the inference table names for a value: Void for null and undefined,
\* bool for a boolean, u32 for a number that is a non-negative integer up to 2^32 - 1
\* and u64 for any other number, u64 for a bigint, string for a string, vec for an
\* array, bytes for a Buffer or Uint8Array, map for a plain object, a failure otherwise
TableConversion(value) ==
  CASE value.t \in {"null", "undefined"} -> Success([type |-> "scvVoid"])
    [] value.t = "boolean" -> boolToScVal(value)
    [] value.t = "number" ->
         IF isValidU32(value) THEN numberToScValU32(value) ELSE numberToScValU64(value)
    [] value.t = "bigint" -> numberToScValU64(value)
    [] value.t = "string" -> stringToScVal(value)
    [] value.t = "array" -> arrayToScValVec(value)
    [] value.t \in {"Buffer", "Uint8Array"} -> bytesToScVal(value)
    [] value.t = "plain" -> mapFrom(value.entries, 1, <<>>)
    [] OTHER -> Failure(ConverterText.Cannot_infer_ScVal_type_for_value_of \o TypeOf(value))

\* C26: toScVal without a target type converts a value by the conversion its kind
\* selects: null/undefined to Void, boolean to bool, a number to u32 if it is a
\* non-negative integer <= 2^32 - 1 and to u64 otherwise, bigint to u64, string to
\* string, array to vec, Buffer or Uint8Array to bytes, plain object to map, and any
\* other kind to a failure.
C26_InferredByKind ==
  "toScVal" \in DOMAIN returned =>
    returned["toScVal"] = TableConversion(call.value)

\* the same for values that neither are nor contain a Uint8Array
HoldsUint8Array(value) ==
  \/ value.t = "Uint8Array"
  \/ value.t = "array" /\ \E i \in 1..Len(value.items) :
       \/ value.items[i].t = "Uint8Array"
       \/ value.items[i].t = "array"
            /\ \E j \in 1..Len(value.items[i].items) :
                 value.items[i].items[j].t = "Uint8Array"
       \/ value.items[i].t = "plain"
            /\ \E j \in 1..Len(value.items[i].entries) :
                 value.items[i].entries[j].value.t = "Uint8Array"
  \/ value.t = "plain" /\ \E i \in 1..Len(value.entries) :
       \/ value.entries[i].value.t = "Uint8Array"
       \/ value.entries[i].value.t = "array"
            /\ \E j \in 1..Len(value.entries[i].value.items) :
                 value.entries[i].value.items[j].t = "Uint8Array"
       \/ value.entries[i].value.t = "plain"
            /\ \E j \in 1..Len(value.entries[i].value.entries) :
                 value.entries[i].value.entries[j].value.t = "Uint8Array"
InferredByKindButUint8Array ==
  "toScVal" \in DOMAIN returned /\ ~HoldsUint8Array(call.value) =>
    returned["toScVal"] = TableConversion(call.value)

\* the callers whose wrapped function has been called and whose slot is not yet
\* given back
Holders == {c \in Callers : task[c] \in {"running", "fulfilled", "rejected"}}

\* C27: at most MAX_CONCURRENT_REQUESTS wrapped functions execute at the same time: the
\* counter `active` stays within 0..5, and it equals the number of calls that have
\* taken a slot and not yet given it back, so that every call gives its slot back
\* exactly once, also a call whose wrapped function rejects.
C27_AtMostFiveActive ==
  /\ active \in 0..MAX_CONCURRENT_REQUESTS
  /\ active = Cardinality(Holders)
  /\ \A i \in 1..Len(queue) : task[queue[i]] = "queued"

\* all slots are taken, the last slot given back was that of a rejected function, and
\* a waiter that was resolved has found every slot taken and waits again
C27_Witness ==
  /\ active = MAX_CONCURRENT_REQUESTS
  /\ queue # <<>>
  /\ released = "rejected"
  /\ requeued

\* the step just taken was getContractInstance, and it threw / returned
InstanceRefused ==
  lastCall'.fn = "getContractInstance" /\ lastCall'.outcome.threw
InstanceReturned ==
  lastCall'.fn = "getContractInstance" /\ ~lastCall'.outcome.threw

\* what one step does to the cache
CacheStep ==
  /\ InstanceRefused => contractInstanceCache' = contractInstanceCache
  /\ \A n \in NetworkInputs :
       hasCachedContract(contractInstanceCache', n) <=>
         /\ lastCall'.fn # "clearContractCache"
         /\ \/ hasCachedContract(contractInstanceCache, n)
            \/ InstanceReturned /\ lastCall'.network = n
  /\ InstanceReturned =>
       /\ lastCall'.outcome.value = contractInstanceCache'[lastCall'.network]
       /\ hasCachedContract(contractInstanceCache, lastCall'.network) =>
            /\ lastCall'.cached
            /\ lastCall'.outcome.value = contractInstanceCache[lastCall'.network]

\* C29: a getContractInstance call that throws leaves the cache as it was;
\* hasCachedContract(n) is false at the start, becomes true by a getContractInstance(n)
\* that returns, becomes false by clearContractCache and changes by nothing else; and
\* a getContractInstance(n) that returns while n is cached returns the cached instance,
\* which is the one the earlier call returned.
C29_RefusalKeepsCache ==
  /\ \A n \in NetworkInputs : ~hasCachedContract(contractInstanceCache, n)
  /\ [][CacheStep]_vars

\* the construction of the testnet contract fails while the mainnet instance is cached
C29_Witness ==
  /\ lastCall.fn = "getContractInstance"
  /\ lastCall.network = Testnet
  /\ lastCall.outcome.threw
  /\ lastCall.outcome.error = ContractNotFoundError
  /\ DOMAIN contractInstanceCache = {Mainnet}

\* the stats lookup of the walletKit invocation has failed: fetch threw, the response
\* was not OK, or its body could not be read
StatsFetchFailed ==
  /\ kit.pc \in {"minting", "settled"}
  /\ "none" \notin DOMAIN kit.fetched
  /\ \/ kit.fetched.threw
     \/ ~kit.fetched.value.ok
     \/ kit.fetched.value.json.threw

\* C30: when mintWrap of walletKit is called without stats and the stats lookup fails,
\* the bridge's mintWrap is still called, with the stats totalVolume 0, mostActiveAsset
\* "XLM", contractCalls 0 and timeframe "all"; and mintWrap of walletKit rejects only
\* when the bridge's mintWrap has rejected.
C30_FetchFailureGivesDefaults ==
  /\ StatsFetchFailed =>
       options = [accountAddress |-> kit.params.userAddress,
                  network |-> kit.params.network,
                  stats |-> StatsObject(SmallInt(0), JsString(SampleText.XLM), SmallInt(0),
                                        JsString(SampleText.all)),
                  observer |-> kit.params.observer]
  /\ (kit.pc = "settled" /\ kit.result.kind = "rejected") =>
       /\ result.kind = "rejected"
       /\ kit.result.error = JsError(SampleText.Minting_failed \o result.error.message)

\* fetch threw, and the mint with the default stats was confirmed
C30_Witness ==
  /\ StatsFetchFailed
  /\ kit.fetched.threw
  /\ kit.pc = "settled"
  /\ kit.result.kind = "resolved"
  /\ options.stats.timeframe = JsString(SampleText.all)
====
